---- MODULE Spec2Model ----
(***************************************************************************)
(* PortfolioAnalyzer frontend: the risk classifier (utils/risk.ts) and the *)
(* Portfolio component (components/Portfolio.tsx, second component of the  *)
(* file, lines 236-920): valuation cycles, the analysis run with its       *)
(* cooldown countdown, and the handlers that change holdings.              *)
(*                                                                         *)
(* Numbers are integers; timestamps are epoch milliseconds; a percentage   *)
(* is an exact fraction [num, den] in lowest terms.  The backend is not    *)
(* part of the repository: every reply of a collaborator is an input drawn *)
(* from a small set.                                                       *)
(***************************************************************************)
EXTENDS Integers, Sequences, FiniteSets, TLC

VARIABLES
  holdings,                 \* useState<HoldingWithPrice[]>          (l.252)
  totalValue,               \* (l.253)
  totalGainLoss,            \* (l.254)
  totalInvested,            \* (l.255)
  portfolioAnalysis,        \* PortfolioAnalysis | null               (l.256)
  analysisLoading,          \* (l.257)
  analysisError,            \* string | null                          (l.258)
  analysisStale,            \* (l.259)
  transcriptSummaries,      \* Record<ticker, summary>                (l.260)
  transcriptsLoading,       \* (l.261)
  transcriptsError,         \* (l.262)
  cooldownRemainingSeconds, \* (l.263)
  nextAvailableAt,          \* string | null, as epoch ms             (l.264)
  lastAnalysisAt,           \* string | null, as epoch ms             (l.265)
  pricesCached,             \* (l.266)
  importMode,               \* (l.267)
  importErrors,             \* (l.268)
  importLoading,            \* (l.269)
  importRows,               \* (l.270)
  editingId,                \* (l.275)
  editShares,               \* (l.276)
  editAvgPrice,             \* (l.277)
  tasks,                    \* running async handlers that reload holdings
  analysisTask,             \* the running loadAnalysis, if any
  lastCycle,                \* baseHoldings and the settled price promises of the
                            \* loadPrices whose output `holdings` now holds
  now,                      \* Date.now()
  timer,                    \* the setInterval of the cooldown effect
  intervals,                \* the intervals set on the page and not cleared
  riskInputs,               \* argument of computeRiskRecommendation
  riskResult,               \* its return value
  mergeInput,               \* arguments of merge(existing, addedShares, addedPrice)
  mergeResult,              \* its outcome
  form,                     \* the fields of the profile form or of the settings form
  profile                   \* the profile of the user, null before it is created

priceVars == <<holdings, totalValue, totalGainLoss, totalInvested, pricesCached, lastCycle>>
analysisVars == <<portfolioAnalysis, analysisLoading, analysisError, analysisStale,
                  transcriptSummaries, transcriptsLoading, transcriptsError,
                  cooldownRemainingSeconds, nextAvailableAt, lastAnalysisAt, analysisTask>>
importVars == <<importMode, importErrors, importLoading, importRows>>
editVars == <<editingId, editShares, editAvgPrice>>
clockVars == <<now, timer, intervals>>
riskVars == <<riskInputs, riskResult>>
mergeVars == <<mergeInput, mergeResult>>
formVars == <<form, profile>>
vars == <<priceVars, analysisVars, importVars, editVars, clockVars, riskVars, mergeVars, formVars,
          tasks>>

-----------------------------------------------------------------------------
(* Bounds of the model *)

\* longest holding list a getHoldings reply carries
MaxHoldings == 2
\* async handlers that may be in flight together
MaxTasks == 2
\* the clock stops here
MaxNowMs == 180000
\* the clock advances by this much at a time
ClockStepMs == 30000
\* longest holding list an analysis reply carries in the coverage specification
MaxAnalysisHoldings == 3
\* most rows of the import table
MaxImportRows == 2

\* setInterval(updateRemaining, 60000) (l.298)
TickIntervalMs == 60000
\* the divisor of updateRemaining (l.293)
MsPerSecond == 1000

-----------------------------------------------------------------------------
(* Values *)

\* an omitted optional argument (obligationsAmount?: number)
Undefined == -1
\* price: null / current_price: null
NoPrice == -1
\* a missing or empty sector string
NoSector == ""
\* nextAvailableAt / lastAnalysisAt: null
NoTime == -1
\* editingId: null
NoId == 0
\* analysisError / transcriptsError: null
NoError == ""
\* portfolioAnalysis: null
Null == [null |-> TRUE]
\* a promise that has not settled
Pending == [pending |-> TRUE]
\* a promise that settled by rejection
Rejected == [rejected |-> TRUE]

RECURSIVE GCD(_, _)
GCD(a, b) == IF b = 0 THEN a ELSE GCD(b, a % b)

Abs(n) == IF n < 0 THEN -n ELSE n

\* the exact value of n/d for d > 0, in lowest terms
Fraction(n, d) ==
  LET g == GCD(Abs(n), d)
  IN [num |-> n \div g, den |-> d \div g]

RECURSIVE SumSeq(_)
SumSeq(s) == IF s = <<>> THEN 0 ELSE Head(s) + SumSeq(Tail(s))

-----------------------------------------------------------------------------
(* utils/risk.ts *)

\* computeRiskRecommendation, had every amount under 2500 counted as low
computeRiskRecommendation_LowUnderHigh(age, income, retirementYears, obligationsArg) ==
  LET obligationsAmount == IF obligationsArg = Undefined THEN 0 ELSE obligationsArg
      highObligations == obligationsAmount >= 2500
      lowObligations == obligationsAmount < 2500
  IN IF retirementYears <= 10 \/ age >= 55 \/ highObligations THEN "conservative"
     ELSE IF retirementYears >= 25 /\ income >= 100000 /\ lowObligations THEN "aggressive"
     ELSE "moderate"

computeRiskRecommendation_StrictAge(age, income, retirementYears, obligationsArg) ==
  LET obligationsAmount == IF obligationsArg = Undefined THEN 0 ELSE obligationsArg
      highObligations == obligationsAmount >= 2500
      lowObligations == obligationsAmount <= 1000
  IN IF retirementYears <= 10 \/ age > 55 \/ highObligations THEN "conservative"
     ELSE IF retirementYears >= 25 /\ income >= 100000 /\ lowObligations THEN "aggressive"
     ELSE "moderate"

computeRiskRecommendation(age, income, retirementYears, obligationsArg) ==
  LET obligationsAmount == IF obligationsArg = Undefined THEN 0 ELSE obligationsArg
      highObligations == obligationsAmount >= 2500
      lowObligations == obligationsAmount <= 1000
  IN IF retirementYears <= 10 \/ age >= 55 \/ highObligations THEN "conservative"
     ELSE IF retirementYears >= 25 /\ income >= 100000 /\ lowObligations THEN "aggressive"
     ELSE "moderate"

\* inputs around every threshold of the three rules
RiskAges == {40, 54, 55, 60}
RiskIncomes == {80000, 99999, 100000, 500000}
RiskRetirementYears == {10, 11, 20, 24, 25, 30}
RiskObligations == {Undefined, 0, 800, 1000, 1001, 2499, 2500}
RiskInputSet == [age : RiskAges, income : RiskIncomes,
                 retirementYears : RiskRetirementYears,
                 obligationsAmount : RiskObligations]
NoRiskInputs == [age |-> 40, income |-> 80000, retirementYears |-> 20, obligationsAmount |-> Undefined]

-----------------------------------------------------------------------------
(* Portfolio.tsx: loadPrices *)

\* the holdings the backend may report: two lots of one ticker, and one
\* position acquired at no cost
HoldingPool ==
  { [id |-> 1, ticker |-> "AAA", shares |-> 2, avg_price |-> 3],
    [id |-> 2, ticker |-> "AAA", shares |-> 1, avg_price |-> 5],
    [id |-> 3, ticker |-> "BBB", shares |-> 3, avg_price |-> 0] }

\* a reply that carries one ordinary holding
OneHolding == << [id |-> 1, ticker |-> "AAA", shares |-> 2, avg_price |-> 3] >>

\* the holding lists a getHoldings reply may carry: rows in id order
HoldingLists ==
  { s \in UNION { [1..n -> HoldingPool] : n \in 0..MaxHoldings } :
      \A i \in 1..Len(s) : \A j \in 1..Len(s) : i < j => s[i].id < s[j].id }

\* the bodies a fulfilled getStockPrice may carry
QuoteReplies ==
  { [current_price |-> 4, sector |-> "Tech", cached |-> TRUE],
    [current_price |-> 4, sector |-> NoSector, cached |-> FALSE],
    [current_price |-> 0, sector |-> "Tech", cached |-> TRUE],
    [current_price |-> NoPrice, sector |-> "Tech", cached |-> TRUE] }

QuoteOutcomes == QuoteReplies \cup {Rejected}

\* .then / .catch of one price promise (l.326-335)
PriceResult(holding, outcome) ==
  IF outcome = Rejected
    THEN [ticker |-> holding.ticker, price |-> NoPrice, sector |-> "Unknown", cached |-> FALSE]
    ELSE [ticker |-> holding.ticker, price |-> outcome.current_price,
          sector |-> outcome.sector, cached |-> outcome.cached]

PriceResults(base, outcomes) ==
  [i \in 1..Len(base) |-> PriceResult(base[i], outcomes[i])]

\* AllCached, had it examined only the results that carry a price
AllCached_PricedOnly(priceResults) ==
  /\ Len(priceResults) > 0
  /\ \A i \in 1..Len(priceResults) :
       priceResults[i].price # NoPrice => priceResults[i].cached

AllCached_NoLengthTest(priceResults) ==
  \A i \in 1..Len(priceResults) : priceResults[i].cached

\* priceResults.length > 0 && priceResults.every(result => result.cached) (l.339)
AllCached(priceResults) ==
  Len(priceResults) > 0 /\ \A i \in 1..Len(priceResults) : priceResults[i].cached

\* priceResults.find(p => p.ticker === holding.ticker) (l.344)
FindPriceData(priceResults, ticker) ==
  LET hits == { i \in 1..Len(priceResults) : priceResults[i].ticker = ticker }
  IN priceResults[CHOOSE i \in hits : \A j \in hits : i <= j]

\* if (priceData?.price): null, undefined and 0 are falsy (l.347)
HasPrice(priceData) == priceData.price # NoPrice /\ priceData.price # 0

GainLossPct_NoPercent(gainLoss, costBasis) ==
  IF costBasis > 0 THEN Fraction(gainLoss, costBasis) ELSE Fraction(0, 1)

\* costBasis > 0 ? (gainLoss / costBasis) * 100 : 0 (l.352)
GainLossPct(gainLoss, costBasis) ==
  IF costBasis > 0 THEN Fraction(gainLoss * 100, costBasis) ELSE Fraction(0, 1)

\* one element of holdingsWithPrices (l.343-375)
HoldingWithPrice(holding, priceResults) ==
  LET priceData == FindPriceData(priceResults, holding.ticker)
      stockSector == IF priceData.sector = NoSector THEN "Unknown" ELSE priceData.sector
      currentPrice == priceData.price
      currentValue == holding.shares * currentPrice
      costBasis == holding.shares * holding.avg_price
      gainLoss == currentValue - costBasis
      gainLossPct == GainLossPct(gainLoss, costBasis)
  IN IF HasPrice(priceData)
       THEN [id |-> holding.id, ticker |-> holding.ticker, shares |-> holding.shares,
             avg_price |-> holding.avg_price, sector |-> stockSector,
             current_price |-> currentPrice, current_value |-> currentValue,
             gain_loss |-> gainLoss, gain_loss_pct |-> gainLossPct,
             price_loading |-> FALSE]
       ELSE [id |-> holding.id, ticker |-> holding.ticker, shares |-> holding.shares,
             avg_price |-> holding.avg_price, sector |-> stockSector,
             current_price |-> NoPrice, current_value |-> 0,
             gain_loss |-> 0, gain_loss_pct |-> Fraction(0, 1),
             price_loading |-> FALSE]

HoldingsWithPrices(base, priceResults) ==
  [i \in 1..Len(base) |-> HoldingWithPrice(base[i], priceResults)]

\* baseHoldings.map(h => ({ ...h, price_loading: true })) (l.308)
LoadingHoldings(base) ==
  [i \in 1..Len(base) |->
     [id |-> base[i].id, ticker |-> base[i].ticker, shares |-> base[i].shares,
      avg_price |-> base[i].avg_price, price_loading |-> TRUE]]

\* the three reduce calls (l.381-383)
TotalOfValue(hs) == SumSeq([i \in 1..Len(hs) |-> hs[i].current_value])
TotalOfGainLoss(hs) == SumSeq([i \in 1..Len(hs) |-> hs[i].gain_loss])
TotalOfInvested_PricedOnly(hs) ==
  SumSeq([i \in 1..Len(hs) |-> IF hs[i].current_price = NoPrice THEN 0
                                ELSE hs[i].shares * hs[i].avg_price])
TotalOfInvested(hs) == SumSeq([i \in 1..Len(hs) |-> hs[i].shares * hs[i].avg_price])

-----------------------------------------------------------------------------
(* Portfolio.tsx: the async handlers that reload holdings *)

Tasks == 1..MaxTasks

\* origin: the handler that called loadHoldings; hadAnalysis: whether
\* handleRefreshHoldings closed over a record when it started (l.507)
\* payload: the body of the request that changes holdings; unchecked: the
\* tickers an import has still to validate
IdleTask ==
  [phase |-> "idle", origin |-> "none", base |-> <<>>, outcomes |-> <<>>,
   hadAnalysis |-> FALSE, payload |-> <<>>, unchecked |-> <<>>]

NewTask(origin, phase, payload, unchecked) ==
  [phase |-> phase, origin |-> origin, base |-> <<>>, outcomes |-> <<>>,
   hadAnalysis |-> origin = "refresh" /\ portfolioAnalysis # Null,
   payload |-> payload, unchecked |-> unchecked]

HasFreeTask == \E t \in Tasks : tasks[t].phase = "idle"
FreeTask == CHOOSE t \in Tasks : tasks[t].phase = "idle" /\ \A u \in Tasks : tasks[u].phase = "idle" => t <= u

\* one row of the import table, blank (l.270-272, l.567)
BlankRow == [ticker |-> "", shares |-> "", avg_price |-> ""]

analysisRest == <<portfolioAnalysis, analysisLoading, transcriptSummaries, transcriptsLoading,
                  transcriptsError, cooldownRemainingSeconds, nextAvailableAt, lastAnalysisAt,
                  analysisTask>>

\* lastCycle while the holdings shown are not the output of a loadPrices
NoCycle == [shown |-> FALSE, base |-> <<>>, outcomes |-> <<>>]

\* Publish, had the totals of an earlier cycle been kept once set
Publish_KeepsEarlierTotals(base, outcomes) ==
  LET priceResults == PriceResults(base, outcomes)
      holdingsWithPrices == HoldingsWithPrices(base, priceResults)
      unset == totalInvested = 0
  IN /\ pricesCached' = AllCached(priceResults)
     /\ holdings' = holdingsWithPrices
     /\ totalValue' = IF unset THEN TotalOfValue(holdingsWithPrices) ELSE totalValue
     /\ totalGainLoss' = IF unset THEN TotalOfGainLoss(holdingsWithPrices) ELSE totalGainLoss
     /\ totalInvested' = IF unset THEN TotalOfInvested(holdingsWithPrices) ELSE totalInvested
     /\ lastCycle' = [shown |-> TRUE, base |-> base, outcomes |-> outcomes]

\* steps 1-4 of loadPrices once every price promise has settled (l.338-387)
Publish(base, outcomes) ==
  LET priceResults == PriceResults(base, outcomes)
      holdingsWithPrices == HoldingsWithPrices(base, priceResults)
  IN /\ pricesCached' = AllCached(priceResults)
     /\ holdings' = holdingsWithPrices
     /\ totalValue' = TotalOfValue(holdingsWithPrices)
     /\ totalGainLoss' = TotalOfGainLoss(holdingsWithPrices)
     /\ totalInvested' = TotalOfInvested(holdingsWithPrices)
     /\ lastCycle' = [shown |-> TRUE, base |-> base, outcomes |-> outcomes]

\* Continue, had a change of holdings also lifted the cooldown
Continue_LiftsCooldown(t, reloaded) ==
  LET origin == tasks[t].origin
      changed == origin \in {"edit", "delete", "import"}
  IN /\ tasks' = [tasks EXCEPT ![t] = IdleTask]
     /\ analysisError' = IF reloaded THEN NoError ELSE analysisError
     /\ analysisStale' = IF changed \/ (origin = "refresh" /\ tasks[t].hadAnalysis)
                          THEN TRUE ELSE analysisStale
     /\ cooldownRemainingSeconds' = IF changed THEN 0 ELSE cooldownRemainingSeconds
     /\ editingId' = IF origin = "edit" THEN NoId ELSE editingId
     /\ importRows' = IF origin = "import" THEN <<BlankRow>> ELSE importRows
     /\ importErrors' = IF origin = "import" THEN <<>> ELSE importErrors
     /\ importLoading' = IF origin = "import" THEN FALSE ELSE importLoading
     /\ UNCHANGED <<portfolioAnalysis, analysisLoading, transcriptSummaries, transcriptsLoading,
                    transcriptsError, nextAvailableAt, lastAnalysisAt, analysisTask, importMode,
                    editShares, editAvgPrice, clockVars, riskVars, mergeVars, formVars>>

\* what runs after loadPrices returns: the rest of loadHoldings (l.312-313, or its
\* catch, l.315-317) and the rest of the handler that awaited it
\* (l.482-484, l.498-499, l.507-509, l.566-568 and l.572)
Continue(t, reloaded) ==
  LET origin == tasks[t].origin
  IN /\ tasks' = [tasks EXCEPT ![t] = IdleTask]
     /\ analysisError' = IF reloaded THEN NoError ELSE analysisError
     /\ analysisStale' = IF \/ origin \in {"edit", "delete", "import"}
                            \/ origin = "refresh" /\ tasks[t].hadAnalysis
                          THEN TRUE ELSE analysisStale
     /\ editingId' = IF origin = "edit" THEN NoId ELSE editingId
     /\ importRows' = IF origin = "import" THEN <<BlankRow>> ELSE importRows
     /\ importErrors' = IF origin = "import" THEN <<>> ELSE importErrors
     /\ importLoading' = IF origin = "import" THEN FALSE ELSE importLoading
     /\ UNCHANGED <<analysisRest, importMode, editShares, editAvgPrice, clockVars, riskVars, mergeVars, formVars>>

\* api.getHoldings() fulfilled with `list` (l.304-311); an empty list leaves
\* Promise.all nothing to wait for, so loadPrices runs to its end at once
HoldingsResolve(t, list) ==
  /\ tasks[t].phase = "getHoldings"
  /\ IF list = <<>>
       THEN Publish(<<>>, <<>>) /\ Continue(t, TRUE)
       ELSE /\ holdings' = LoadingHoldings(list)
            /\ tasks' = [tasks EXCEPT ![t].phase = "quotes", ![t].base = list,
                                      ![t].outcomes = [i \in 1..Len(list) |-> Pending]]
            /\ lastCycle' = NoCycle
            /\ UNCHANGED <<totalValue, totalGainLoss, totalInvested, pricesCached,
                           analysisVars, importVars, editVars, clockVars, riskVars, mergeVars, formVars>>

\* api.getHoldings() rejected: the catch of loadHoldings returns [] (l.315-318)
HoldingsReject(t) ==
  /\ tasks[t].phase = "getHoldings"
  /\ Continue(t, FALSE)
  /\ UNCHANGED priceVars

\* QuoteSettle, had a rejected request ended the batch (a Promise.all over
\* promises without their catch)
QuoteSettle_FailFast(t, i, outcome) ==
  /\ tasks[t].phase = "quotes"
  /\ i \in 1..Len(tasks[t].base)
  /\ tasks[t].outcomes[i] = Pending
  /\ LET outcomes == [tasks[t].outcomes EXCEPT ![i] = outcome]
         abandoned == [j \in 1..Len(outcomes) |->
                         IF outcomes[j] = Pending THEN Rejected ELSE outcomes[j]]
     IN IF outcome = Rejected
          THEN Publish(tasks[t].base, abandoned) /\ Continue(t, TRUE)
          ELSE IF \E j \in 1..Len(outcomes) : outcomes[j] = Pending
            THEN /\ tasks' = [tasks EXCEPT ![t].outcomes = outcomes]
                 /\ UNCHANGED <<priceVars, analysisVars, importVars, editVars, clockVars, riskVars, mergeVars, formVars>>
            ELSE Publish(tasks[t].base, outcomes) /\ Continue(t, TRUE)

\* one api.getStockPrice promise settles (l.325-335); the last one to settle
\* resolves Promise.all and the rest of loadPrices runs (l.338-387)
QuoteSettle(t, i, outcome) ==
  /\ tasks[t].phase = "quotes"
  /\ i \in 1..Len(tasks[t].base)
  /\ tasks[t].outcomes[i] = Pending
  /\ LET outcomes == [tasks[t].outcomes EXCEPT ![i] = outcome]
     IN IF \E j \in 1..Len(outcomes) : outcomes[j] = Pending
          THEN /\ tasks' = [tasks EXCEPT ![t].outcomes = outcomes]
               /\ UNCHANGED <<priceVars, analysisVars, importVars, editVars, clockVars, riskVars, mergeVars, formVars>>
          ELSE Publish(tasks[t].base, outcomes) /\ Continue(t, TRUE)

\* the Sync Holdings button (l.757-764) and handleRefreshHoldings up to its await (l.505-506)
RefreshHoldings ==
  /\ ~pricesCached
  /\ HasFreeTask
  /\ tasks' = [tasks EXCEPT ![FreeTask] = NewTask("refresh", "getHoldings", <<>>, <<>>)]
  /\ UNCHANGED <<priceVars, analysisVars, importVars, editVars, clockVars, riskVars, mergeVars, formVars>>

-----------------------------------------------------------------------------
(* Portfolio.tsx: the cooldown effect (l.286-300) *)

Max(a, b) == IF a >= b THEN a ELSE b

\* no interval is set
NoTimer == [active |-> FALSE, due |-> 0, fired |-> 0, id |-> 0]

\* the handle setInterval returns: the least one outside `used`, the live
\* intervals and the one cleared last. Older handles are used again, which
\* keeps them bounded; only that a new handle differs from those matters.
FreeHandle(used) ==
  CHOOSE h \in 1..(Cardinality(used) + 1) :
    h \notin used /\ \A k \in 1..(h - 1) : k \in used

updateRemaining_NoClamp(next, t) == (next - t) \div MsPerSecond

updateRemaining_Millis(next, t) == Max(0, next - t)

\* Math.max(0, Math.floor((next - Date.now()) / 1000)) (l.292-293)
updateRemaining(next, t) == Max(0, (next - t) \div MsPerSecond)

\* TimerAfter, had the effect set no interval
TimerAfter_NoInterval(next) ==
  IF next = nextAvailableAt THEN timer ELSE NoTimer

\* the timer after the effect has run for a new value of nextAvailableAt: the
\* cleanup clears the old interval (l.299), a null value sets none (l.287-289)
TimerAfter(next) ==
  IF next = nextAvailableAt THEN timer
  ELSE IF next = NoTime THEN NoTimer
  ELSE [active |-> TRUE, due |-> now + TickIntervalMs, fired |-> 0,
        id |-> FreeHandle(intervals \cup {timer.id})]

\* IntervalsAfter, had the effect returned no cleanup
IntervalsAfter_NoCleanup(next) ==
  IF next = nextAvailableAt \/ next = NoTime THEN intervals
  ELSE intervals \cup {FreeHandle(intervals \cup {timer.id})}

\* the live intervals after the effect has run for a new value of
\* nextAvailableAt: clearInterval(timer) of the former run (l.299), then
\* setInterval unless the value is null (l.287-289, l.298)
IntervalsAfter(next) ==
  IF next = nextAvailableAt THEN intervals
  ELSE LET cleared == intervals \ {timer.id}
       IN IF next = NoTime THEN cleared
          ELSE cleared \cup {FreeHandle(intervals \cup {timer.id})}

\* cooldownRemainingSeconds after a commit that set it to `seconds` and
\* nextAvailableAt to `next`: the effect runs updateRemaining at once when
\* nextAvailableAt changed to a timestamp (l.297)
CooldownAfter(seconds, next) ==
  IF next # nextAvailableAt /\ next # NoTime THEN updateRemaining(next, now) ELSE seconds

\* the interval callback (l.291-295, l.298)
Tick ==
  /\ timer.active
  /\ now >= timer.due
  /\ cooldownRemainingSeconds' = updateRemaining(nextAvailableAt, now)
  /\ timer' = [timer EXCEPT !.due = @ + TickIntervalMs, !.fired = @ + 1]
  /\ UNCHANGED <<priceVars, portfolioAnalysis, analysisLoading, analysisError, analysisStale,
                 transcriptSummaries, transcriptsLoading, transcriptsError, nextAvailableAt,
                 lastAnalysisAt, analysisTask, importVars, editVars, now, intervals, riskVars,
                 mergeVars, formVars, tasks>>

\* time passes; a due callback of the interval runs before the clock moves on
AdvanceClock ==
  /\ now + ClockStepMs <= MaxNowMs
  /\ ~(timer.active /\ now >= timer.due)
  /\ now' = now + ClockStepMs
  /\ UNCHANGED <<priceVars, analysisVars, importVars, editVars, timer, intervals, riskVars, mergeVars, formVars, tasks>>

-----------------------------------------------------------------------------
(* Portfolio.tsx: loadAnalysis (l.394-451) *)

\* asset_type absent
NoType == ""

\* String.prototype.toUpperCase on the asset types that occur
ToUpperCase(str) ==
  CASE str = "etf" -> "ETF"
    [] str = "Mutual Fund" -> "MUTUAL FUND"
    [] str = "fund" -> "FUND"
    [] str = "stock" -> "STOCK"
    [] OTHER -> str

excludedAssetTypes == {"ETF", "MUTUAL FUND", "FUND"}

\* KeepsHolding, had it compared the asset type as spelled
KeepsHolding_AsSpelled(holding) ==
  holding.asset_type = NoType \/ holding.asset_type \notin excludedAssetTypes

\* the filter of l.412-415
KeepsHolding(holding) ==
  LET assetType == ToUpperCase(holding.asset_type)
  IN holding.asset_type = NoType \/ assetType \notin excludedAssetTypes

filteredHoldings(list) == SelectSeq(list, KeepsHolding)

RECURSIVE InsertByValue(_, _)
\* `h` put into a list sorted by current_value descending, after its equals
InsertByValue(sorted, h) ==
  IF sorted = <<>> THEN <<h>>
  ELSE IF Head(sorted).current_value >= h.current_value
    THEN <<Head(sorted)>> \o InsertByValue(Tail(sorted), h)
    ELSE <<h>> \o sorted

RECURSIVE sortedHoldings(_)
\* [...filteredHoldings].sort((a, b) => b.current_value - a.current_value), a stable sort (l.416)
sortedHoldings(list) ==
  IF list = <<>> THEN <<>>
  ELSE InsertByValue(sortedHoldings(SubSeq(list, 1, Len(list) - 1)), list[Len(list)])

RECURSIVE WalkTop_PastTheMark(_, _, _)
\* WalkTop, had it stopped only once the running share exceeded 0.7
WalkTop_PastTheMark(rest, running, total) ==
  IF rest = <<>> THEN <<>>
  ELSE IF total <= 0 THEN WalkTop_PastTheMark(Tail(rest), running, total)
  ELSE IF running * 10 > 7 * total THEN WalkTop_PastTheMark(Tail(rest), running, total)
  ELSE <<Head(rest)>> \o WalkTop_PastTheMark(Tail(rest), running + Head(rest).current_value, total)

RECURSIVE WalkTop_StopsBeforeTheMark(_, _, _)
\* WalkTop, had it left out the holding that reaches the mark
WalkTop_StopsBeforeTheMark(rest, running, total) ==
  IF rest = <<>> THEN <<>>
  ELSE IF total <= 0 THEN WalkTop_StopsBeforeTheMark(Tail(rest), running, total)
  ELSE IF (running + Head(rest).current_value) * 10 >= 7 * total
    THEN WalkTop_StopsBeforeTheMark(Tail(rest), running, total)
  ELSE <<Head(rest)>> \o WalkTop_StopsBeforeTheMark(Tail(rest), running + Head(rest).current_value, total)

RECURSIVE WalkTop(_, _, _)
\* the filter callback of l.419-428 over the rest of the sorted list
WalkTop(rest, running, total) ==
  IF rest = <<>> THEN <<>>
  ELSE IF total <= 0 THEN WalkTop(Tail(rest), running, total)
  ELSE IF running * 10 >= 7 * total THEN WalkTop(Tail(rest), running, total)
  ELSE <<Head(rest)>> \o WalkTop(Tail(rest), running + Head(rest).current_value, total)

\* topHoldings of l.416-428
topHoldings(list) ==
  LET sorted == sortedHoldings(filteredHoldings(list))
      total == SumSeq([i \in 1..Len(sorted) |-> sorted[i].current_value])
  IN WalkTop(sorted, 0, total)

\* the holdings an analysis reply may carry
AnalysisHoldingLists ==
  { <<>>,
    << [ticker |-> "AAA", current_value |-> 400, asset_type |-> NoType],
       [ticker |-> "FFF", current_value |-> 500, asset_type |-> "etf"],
       [ticker |-> "BBB", current_value |-> 300, asset_type |-> "stock"],
       [ticker |-> "CCC", current_value |-> 300, asset_type |-> NoType] >> }

\* the analysis_meta an analysis reply may carry
AnalysisMetas ==
  [cooldown_remaining_seconds : {0, 90},
   next_available_at : {NoTime, 30500, 90000},
   last_analysis_at : {NoTime, 500}]

AnalysisResponses ==
  [holdings : AnalysisHoldingLists, analysis_meta : AnalysisMetas]

\* the settled outcome of api.getEarningsTranscript for a ticker
TranscriptOutcomes(ticker) ==
  { [ticker |-> ticker, summary |-> "summary"], Rejected }

IdleAnalysis == [phase |-> "idle", top |-> <<>>, results |-> <<>>]

RunDisabled_NoCooldownTest ==
  Len(holdings) = 0 \/ analysisLoading

\* RunDisabled, had a run in progress left the button enabled
RunDisabled_NoLoadingTest ==
  Len(holdings) = 0 \/ cooldownRemainingSeconds > 0

\* disabled of the Run Analysis button (l.877)
RunDisabled ==
  Len(holdings) = 0 \/ analysisLoading \/ cooldownRemainingSeconds > 0

\* a click on Run Analysis (l.874-880): nothing when the button is disabled,
\* else handleRunAnalysis and loadAnalysis up to its await (l.589-591, l.394-400)
ClickRunAnalysis ==
  IF RunDisabled
    THEN UNCHANGED vars
    ELSE /\ analysisLoading' = TRUE
         /\ analysisError' = NoError
         /\ transcriptsError' = NoError
         /\ analysisTask' = [IdleAnalysis EXCEPT !.phase = "request"]
         /\ UNCHANGED <<priceVars, portfolioAnalysis, analysisStale, transcriptSummaries,
                        transcriptsLoading, cooldownRemainingSeconds, nextAvailableAt,
                        lastAnalysisAt, importVars, editVars, clockVars, riskVars, mergeVars, formVars, tasks>>

\* SummariesOf, had one rejected result emptied the map
SummariesOf_AllOrNothing(results) ==
  IF \E i \in 1..Len(results) : results[i] = Rejected
    THEN <<>>
    ELSE [ticker \in { results[i].ticker : i \in 1..Len(results) } |->
            results[CHOOSE i \in 1..Len(results) : results[i].ticker = ticker].summary]

\* summaries of l.434-439: the fulfilled results, keyed by the ticker they carry
SummariesOf(results) ==
  LET fulfilled == { i \in 1..Len(results) : results[i] # Rejected }
      tickers == { results[i].ticker : i \in fulfilled }
  IN [ticker \in tickers |->
        LET hits == { i \in fulfilled : results[i].ticker = ticker }
        IN results[CHOOSE i \in hits : \A j \in hits : j <= i].summary]

\* l.440-444 and the finally of l.448-450, once every transcript request settled
FinishTranscripts(results) ==
  /\ transcriptSummaries' = SummariesOf(results)
  /\ transcriptsError' = IF \E i \in 1..Len(results) : results[i] = Rejected
                           THEN "Some transcripts could not be loaded."
                           ELSE transcriptsError
  /\ transcriptsLoading' = FALSE
  /\ analysisLoading' = FALSE
  /\ analysisTask' = IdleAnalysis

\* api.analyzePortfolio() fulfilled with `response` (l.400-433); with no
\* holdings in the reply, or no holding selected, loadAnalysis runs to its end
AnalysisResolve(response) ==
  /\ analysisTask.phase = "request"
  /\ portfolioAnalysis' = response
  /\ analysisStale' = FALSE
  /\ cooldownRemainingSeconds' =
       CooldownAfter(response.analysis_meta.cooldown_remaining_seconds,
                     response.analysis_meta.next_available_at)
  /\ timer' = TimerAfter(response.analysis_meta.next_available_at)
  /\ intervals' = IntervalsAfter(response.analysis_meta.next_available_at)
  /\ nextAvailableAt' = response.analysis_meta.next_available_at
  /\ lastAnalysisAt' = response.analysis_meta.last_analysis_at
  /\ IF Len(response.holdings) = 0
       THEN /\ analysisLoading' = FALSE
            /\ analysisTask' = IdleAnalysis
            /\ UNCHANGED <<transcriptSummaries, transcriptsError, transcriptsLoading>>
       ELSE LET top == topHoldings(response.holdings)
            IN IF top = <<>>
                 THEN FinishTranscripts(<<>>)
                 ELSE /\ transcriptsLoading' = TRUE
                      /\ analysisTask' = [phase |-> "transcripts", top |-> top,
                                          results |-> [i \in 1..Len(top) |-> Pending]]
                      /\ UNCHANGED <<transcriptSummaries, transcriptsError, analysisLoading>>
  /\ UNCHANGED <<priceVars, analysisError, importVars, editVars, now, riskVars, mergeVars, formVars, tasks>>

\* AnalysisReject, had a failed call still fetched the transcripts of the
\* cached record
AnalysisReject_StillFetches ==
  /\ analysisTask.phase = "request"
  /\ analysisError' = "Failed to analyze portfolio."
  /\ LET top == IF portfolioAnalysis = Null THEN <<>>
                ELSE topHoldings(portfolioAnalysis.holdings)
     IN IF top = <<>>
          THEN /\ analysisLoading' = FALSE
               /\ analysisTask' = IdleAnalysis
               /\ UNCHANGED transcriptsLoading
          ELSE /\ transcriptsLoading' = TRUE
               /\ analysisTask' = [phase |-> "transcripts", top |-> top,
                                   results |-> [i \in 1..Len(top) |-> Pending]]
               /\ UNCHANGED analysisLoading
  /\ UNCHANGED <<priceVars, portfolioAnalysis, analysisStale, transcriptSummaries,
                 transcriptsError, cooldownRemainingSeconds,
                 nextAvailableAt, lastAnalysisAt, importVars, editVars, clockVars,
                 riskVars, mergeVars, formVars, tasks>>

\* AnalysisReject, had the catch dropped the cached record
AnalysisReject_DropsRecord ==
  /\ analysisTask.phase = "request"
  /\ analysisError' = "Failed to analyze portfolio."
  /\ analysisLoading' = FALSE
  /\ analysisTask' = IdleAnalysis
  /\ portfolioAnalysis' = Null
  /\ transcriptSummaries' = <<>>
  /\ UNCHANGED <<priceVars, analysisStale,
                 transcriptsLoading, transcriptsError, cooldownRemainingSeconds,
                 nextAvailableAt, lastAnalysisAt, importVars, editVars, clockVars,
                 riskVars, mergeVars, formVars, tasks>>

\* api.analyzePortfolio() rejected: the catch and the finally (l.446-450)
AnalysisReject ==
  /\ analysisTask.phase = "request"
  /\ analysisError' = "Failed to analyze portfolio."
  /\ analysisLoading' = FALSE
  /\ analysisTask' = IdleAnalysis
  /\ UNCHANGED <<priceVars, portfolioAnalysis, analysisStale, transcriptSummaries,
                 transcriptsLoading, transcriptsError, cooldownRemainingSeconds,
                 nextAvailableAt, lastAnalysisAt, importVars, editVars, clockVars,
                 riskVars, mergeVars, formVars, tasks>>

\* one api.getEarningsTranscript promise settles (l.429-433); the last one to
\* settle resolves Promise.allSettled and the rest of loadAnalysis runs
TranscriptSettle(i, outcome) ==
  /\ analysisTask.phase = "transcripts"
  /\ i \in 1..Len(analysisTask.top)
  /\ analysisTask.results[i] = Pending
  /\ LET results == [analysisTask.results EXCEPT ![i] = outcome]
     IN IF \E j \in 1..Len(results) : results[j] = Pending
          THEN /\ analysisTask' = [analysisTask EXCEPT !.results = results]
               /\ UNCHANGED <<transcriptSummaries, transcriptsError, transcriptsLoading,
                              analysisLoading>>
          ELSE FinishTranscripts(results)
  /\ UNCHANGED <<priceVars, portfolioAnalysis, analysisError, analysisStale,
                 cooldownRemainingSeconds, nextAvailableAt, lastAnalysisAt, importVars,
                 editVars, clockVars, riskVars, mergeVars, formVars, tasks>>

-----------------------------------------------------------------------------
(* Portfolio.tsx: editing and deleting a holding (l.453-503) *)

\* parseFloat of a text that is no number
NaN == -999

\* parseFloat on the texts that occur
parseFloat(text) ==
  CASE text = "0" -> 0
    [] text = "-2" -> -2
    [] text = "1" -> 1
    [] text = "2" -> 2
    [] text = "3" -> 3
    [] text = "5" -> 5
    [] text = "7" -> 7
    [] text = "30" -> 30
    [] text = "40" -> 40
    [] text = "60" -> 60
    [] text = "2500" -> 2500
    [] text = "80000" -> 80000
    [] text = "100000" -> 100000
    [] OTHER -> NaN

\* Number.prototype.toString on the numbers that occur
toString(n) ==
  CASE n = 0 -> "0"
    [] n = 1 -> "1"
    [] n = 2 -> "2"
    [] n = 3 -> "3"
    [] n = 5 -> "5"
    [] n = 7 -> "7"
    [] n = 30 -> "30"
    [] n = 40 -> "40"
    [] n = 60 -> "60"
    [] n = 2500 -> "2500"
    [] n = 80000 -> "80000"
    [] n = 100000 -> "100000"


\* the rows that show the edit button / the row that shows Save (l.786-866)
ShownHoldings == { holdings[i] : i \in 1..Len(holdings) }

\* handleEdit (l.453-457)
HandleEdit(holding) ==
  /\ holding \in ShownHoldings
  /\ editingId # holding.id
  /\ editingId' = holding.id
  /\ editShares' = toString(holding.shares)
  /\ editAvgPrice' = toString(holding.avg_price)
  /\ UNCHANGED <<priceVars, analysisVars, importVars, clockVars, riskVars, mergeVars, formVars, tasks>>

\* handleCancelEdit (l.459-463)
HandleCancelEdit ==
  /\ \E h \in ShownHoldings : h.id = editingId
  /\ editingId' = NoId
  /\ editShares' = ""
  /\ editAvgPrice' = ""
  /\ UNCHANGED <<priceVars, analysisVars, importVars, clockVars, riskVars, mergeVars, formVars, tasks>>

\* onChange of the two edit inputs (l.793, l.802)
ChangeEditShares(text) ==
  /\ \E h \in ShownHoldings : h.id = editingId
  /\ editShares' = text
  /\ UNCHANGED <<priceVars, analysisVars, importVars, editingId, editAvgPrice, clockVars,
                 riskVars, mergeVars, formVars, tasks>>

ChangeEditAvgPrice(text) ==
  /\ \E h \in ShownHoldings : h.id = editingId
  /\ editAvgPrice' = text
  /\ UNCHANGED <<priceVars, analysisVars, importVars, editingId, editShares, clockVars,
                 riskVars, mergeVars, formVars, tasks>>

\* handleSaveEdit up to its first await (l.465-479)
HandleSaveEdit(holding) ==
  /\ holding \in ShownHoldings
  /\ holding.id = editingId
  /\ HasFreeTask
  /\ LET newShares == parseFloat(editShares)
         newPrice == parseFloat(editAvgPrice)
     IN IF newShares = NaN \/ newPrice = NaN
          THEN UNCHANGED vars
          ELSE /\ tasks' = [tasks EXCEPT ![FreeTask] =
                              NewTask("edit", "update",
                                      [id |-> holding.id, ticker |-> holding.ticker,
                                       shares |-> newShares, avg_price |-> newPrice], <<>>)]
               /\ UNCHANGED <<priceVars, analysisVars, importVars, editVars, clockVars, riskVars, mergeVars, formVars>>

\* handleDelete, confirmed, up to its first await (l.490-496)
HandleDelete(holding) ==
  /\ holding \in ShownHoldings
  /\ holding.id # editingId
  /\ HasFreeTask
  /\ tasks' = [tasks EXCEPT ![FreeTask] = NewTask("delete", "delete", [id |-> holding.id], <<>>)]
  /\ UNCHANGED <<priceVars, analysisVars, importVars, editVars, clockVars, riskVars, mergeVars, formVars>>

\* the request that changes holdings is fulfilled: the handler calls
\* loadHoldings (l.481, l.497, l.565)
MutationResolve(t) ==
  /\ tasks[t].phase \in {"update", "delete", "bulk"}
  /\ tasks' = [tasks EXCEPT ![t].phase = "getHoldings"]
  /\ UNCHANGED <<priceVars, analysisVars, importVars, editVars, clockVars, riskVars, mergeVars, formVars>>

\* MutationReject, had a failed import emptied the table
MutationReject_ClearsRows(t) ==
  /\ tasks[t].phase \in {"update", "delete", "bulk"}
  /\ tasks' = [tasks EXCEPT ![t] = IdleTask]
  /\ importLoading' = IF tasks[t].origin = "import" THEN FALSE ELSE importLoading
  /\ importRows' = IF tasks[t].origin = "import" THEN <<BlankRow>> ELSE importRows
  /\ UNCHANGED <<priceVars, analysisVars, importMode, importErrors, editVars,
                 clockVars, riskVars, mergeVars, formVars>>

\* MutationReject, had the handler reloaded the holdings after a failure too
MutationReject_Reloads(t) ==
  /\ tasks[t].phase \in {"update", "delete", "bulk"}
  /\ tasks' = [tasks EXCEPT ![t].phase = "getHoldings"]
  /\ UNCHANGED <<priceVars, analysisVars, importVars, editVars, clockVars, riskVars, mergeVars,
                 formVars>>

\* the request is rejected: the catch of the handler (l.485-487, l.500-502,
\* l.569-573)
MutationReject(t) ==
  /\ tasks[t].phase \in {"update", "delete", "bulk"}
  /\ tasks' = [tasks EXCEPT ![t] = IdleTask]
  /\ importLoading' = IF tasks[t].origin = "import" THEN FALSE ELSE importLoading
  /\ UNCHANGED <<priceVars, analysisVars, importMode, importErrors, importRows, editVars,
                 clockVars, riskVars, mergeVars, formVars>>

-----------------------------------------------------------------------------
(* Portfolio.tsx: the import table (l.512-587, l.642-743) *)

\* String.prototype.trim on the ticker texts that occur
trim(text) == IF text = " " THEN "" ELSE text

\* String.prototype.toUpperCase on the ticker texts that occur
TickerToUpperCase(text) ==
  CASE text = "aaa" -> "AAA"
    [] text = "bbb" -> "BBB"
    [] OTHER -> text

RECURSIVE ParseRows_StopsAtFirstError(_, _)
\* ParseRows, had it stopped at the first row in error
ParseRows_StopsAtFirstError(rows, index) ==
  IF index > Len(rows) THEN [preview |-> <<>>, errors |-> <<>>]
  ELSE
    LET row == rows[index]
        rest == ParseRows_StopsAtFirstError(rows, index + 1)
        tickerRaw == trim(row.ticker)
        sharesValue == parseFloat(row.shares)
        priceValue == parseFloat(row.avg_price)
    IN IF tickerRaw = "" /\ row.shares = "" /\ row.avg_price = "" THEN rest
       ELSE IF tickerRaw = "" \/ sharesValue = NaN \/ priceValue = NaN
         THEN [preview |-> <<>>, errors |-> <<[kind |-> "row", row |-> index]>>]
         ELSE [preview |-> <<[ticker |-> TickerToUpperCase(tickerRaw), shares |-> sharesValue,
                              avg_price |-> priceValue]>> \o rest.preview,
               errors |-> rest.errors]

RECURSIVE ParseRows(_, _)
\* parseImportRows over rows index..Len(importRows) (l.516-533)
ParseRows(rows, index) ==
  IF index > Len(rows) THEN [preview |-> <<>>, errors |-> <<>>]
  ELSE
    LET row == rows[index]
        rest == ParseRows(rows, index + 1)
        tickerRaw == trim(row.ticker)
        sharesValue == parseFloat(row.shares)
        priceValue == parseFloat(row.avg_price)
    IN IF tickerRaw = "" /\ row.shares = "" /\ row.avg_price = "" THEN rest
       ELSE IF tickerRaw = "" \/ sharesValue = NaN \/ priceValue = NaN
         THEN [preview |-> rest.preview,
               errors |-> <<[kind |-> "row", row |-> index]>> \o rest.errors]
         ELSE [preview |-> <<[ticker |-> TickerToUpperCase(tickerRaw), shares |-> sharesValue,
                              avg_price |-> priceValue]>> \o rest.preview,
               errors |-> rest.errors]

parseImportRows == ParseRows(importRows, 1)

RECURSIVE Unique(_)
\* Array.from(new Set(list)): first occurrences, in order (l.547)
Unique(list) ==
  IF list = <<>> THEN <<>>
  ELSE LET init == Unique(SubSeq(list, 1, Len(list) - 1))
           last == list[Len(list)]
       IN IF \E i \in 1..Len(init) : init[i] = last THEN init ELSE Append(init, last)

\* onChange of the three inputs of a row (l.648-653, l.662-667, l.676-681)
ChangeImportTicker(r, text) ==
  /\ r \in 1..Len(importRows)
  /\ importRows' = [importRows EXCEPT ![r].ticker = text]
  /\ UNCHANGED <<priceVars, analysisVars, importMode, importErrors, importLoading, editVars,
                 clockVars, riskVars, mergeVars, formVars, tasks>>

ChangeImportShares(r, text) ==
  /\ r \in 1..Len(importRows)
  /\ importRows' = [importRows EXCEPT ![r].shares = text]
  /\ UNCHANGED <<priceVars, analysisVars, importMode, importErrors, importLoading, editVars,
                 clockVars, riskVars, mergeVars, formVars, tasks>>

ChangeImportAvgPrice(r, text) ==
  /\ r \in 1..Len(importRows)
  /\ importRows' = [importRows EXCEPT ![r].avg_price = text]
  /\ UNCHANGED <<priceVars, analysisVars, importMode, importErrors, importLoading, editVars,
                 clockVars, riskVars, mergeVars, formVars, tasks>>

\* the + button of the last row, shown once its three fields are filled
\* (l.699-710), and addImportRowAfter (l.576-587)
AddImportRowAfter(r) ==
  /\ r = Len(importRows)
  /\ Len(importRows) < MaxImportRows
  /\ trim(importRows[r].ticker) # ""
  /\ trim(importRows[r].shares) # ""
  /\ trim(importRows[r].avg_price) # ""
  /\ importRows' = Append(importRows, BlankRow)
  /\ UNCHANGED <<priceVars, analysisVars, importMode, importErrors, importLoading, editVars,
                 clockVars, riskVars, mergeVars, formVars, tasks>>

\* the remove button of every row but the first (l.687-695)
RemoveImportRow(r) ==
  /\ r \in 2..Len(importRows)
  /\ importRows' = [i \in 1..(Len(importRows) - 1) |->
                      IF i < r THEN importRows[i] ELSE importRows[i + 1]]
  /\ UNCHANGED <<priceVars, analysisVars, importMode, importErrors, importLoading, editVars,
                 clockVars, riskVars, mergeVars, formVars, tasks>>

\* the two mode buttons (l.721-734)
SetImportMode(mode) ==
  /\ importMode # mode
  /\ importMode' = mode
  /\ UNCHANGED <<priceVars, analysisVars, importErrors, importLoading, importRows, editVars,
                 clockVars, riskVars, mergeVars, formVars, tasks>>

\* HandleImportHoldings, had the request always carried the merge mode
HandleImportHoldings_AlwaysMerge ==
  /\ ~importLoading
  /\ HasFreeTask
  /\ LET parsed == parseImportRows
         uniqueTickers == Unique([i \in 1..Len(parsed.preview) |-> parsed.preview[i].ticker])
     IN /\ importErrors' = parsed.errors
        /\ IF Len(parsed.preview) = 0 \/ Len(parsed.errors) > 0
             THEN UNCHANGED <<importLoading, tasks>>
             ELSE /\ importLoading' = TRUE
                  /\ tasks' = [tasks EXCEPT ![FreeTask] =
                                 NewTask("import", "validate",
                                         [mode |-> "merge", holdings |-> parsed.preview],
                                         uniqueTickers)]
  /\ UNCHANGED <<priceVars, analysisVars, importMode, importRows, editVars, clockVars, riskVars, mergeVars, formVars>>

\* handleImportHoldings up to its first await (l.539-549); the button is
\* disabled while an import runs (l.739)
HandleImportHoldings ==
  /\ ~importLoading
  /\ HasFreeTask
  /\ LET parsed == parseImportRows
         uniqueTickers == Unique([i \in 1..Len(parsed.preview) |-> parsed.preview[i].ticker])
     IN /\ importErrors' = parsed.errors
        /\ IF Len(parsed.preview) = 0 \/ Len(parsed.errors) > 0
             THEN UNCHANGED <<importLoading, tasks>>
             ELSE /\ importLoading' = TRUE
                  /\ tasks' = [tasks EXCEPT ![FreeTask] =
                                 NewTask("import", "validate",
                                         [mode |-> importMode, holdings |-> parsed.preview],
                                         uniqueTickers)]
  /\ UNCHANGED <<priceVars, analysisVars, importMode, importRows, editVars, clockVars, riskVars, mergeVars, formVars>>

\* ValidateResolve, had a ticker reported invalid been passed over
ValidateResolve_PassesInvalid(t, valid) ==
  /\ tasks[t].phase = "validate"
  /\ tasks' = [tasks EXCEPT ![t].unchecked = Tail(@),
                            ![t].phase = IF Len(tasks[t].unchecked) = 1
                                           THEN "bulk" ELSE "validate"]
  /\ UNCHANGED <<importErrors, importLoading>>
  /\ UNCHANGED <<priceVars, analysisVars, importMode, importRows, editVars, clockVars, riskVars, mergeVars, formVars>>

\* api.validateTicker fulfilled for the first unchecked ticker (l.549-555); after
\* the last ticker the bulk upsert is issued (l.557-564)
ValidateResolve(t, valid) ==
  /\ tasks[t].phase = "validate"
  /\ IF valid
       THEN /\ tasks' = [tasks EXCEPT ![t].unchecked = Tail(@),
                                      ![t].phase = IF Len(tasks[t].unchecked) = 1
                                                     THEN "bulk" ELSE "validate"]
            /\ UNCHANGED <<importErrors, importLoading>>
       ELSE /\ importErrors' = <<[kind |-> "ticker", ticker |-> Head(tasks[t].unchecked)]>>
            /\ importLoading' = FALSE
            /\ tasks' = [tasks EXCEPT ![t] = IdleTask]
  /\ UNCHANGED <<priceVars, analysisVars, importMode, importRows, editVars, clockVars, riskVars, mergeVars, formVars>>

\* api.validateTicker rejected: the catch and the finally (l.569-573)
ValidateReject(t) ==
  /\ tasks[t].phase = "validate"
  /\ tasks' = [tasks EXCEPT ![t] = IdleTask]
  /\ importLoading' = FALSE
  /\ UNCHANGED <<priceVars, analysisVars, importMode, importErrors, importRows, editVars,
                 clockVars, riskVars, mergeVars, formVars>>

-----------------------------------------------------------------------------
(* The profile form (ProfileForm.tsx), shown while the user has no profile, *)
(* and the settings form of the application shell, shown for a profile     *)
(* that exists. Both keep the same fields; `form` holds those of the form  *)
(* that is shown. The field classifiedFrom is not state of the program: it *)
(* records the arguments of the classification that produced the risk      *)
(* tolerance while the mode is 'ai'.                                       *)

NoCall == [age |-> NaN, income |-> NaN, retirementYears |-> NaN, obligationsAmount |-> NaN]

\* useState initial values (ProfileForm.tsx l.10-15)
BlankForm ==
  [age |-> "", income |-> "", retirementYears |-> "", obligationsAmount |-> "",
   riskTolerance |-> "moderate", riskAssessmentMode |-> "manual",
   settingsOpen |-> FALSE, settingsError |-> NoError, alert |-> NoError,
   classifiedFrom |-> NoCall]

\* parseInt, had it read an empty text as 0
parseInt_BlankIsZero(text) == IF text = "" THEN 0 ELSE parseFloat(text)

\* parseInt(text, 10) on the texts that occur: whole numbers or nothing
parseInt(text) == parseFloat(text)

\* the texts a field may be given
FormTexts ==
  [age |-> {"", "40", "60"},
   income |-> {"", "80000", "100000"},
   retirementYears |-> {"", "30"},
   obligationsAmount |-> {"", "2500", "abc"}]

FormFields == {"age", "income", "retirementYears", "obligationsAmount"}

RiskTolerances == {"conservative", "moderate", "aggressive"}

\* the fields of a profile on the server, and what its risk tolerance was
\* classified from when its mode is 'ai'
ProfileFieldSet ==
  [age : {40, 60}, income : {100000}, retirementYears : {30}, obligationsAmount : {Undefined}]

ServerProfiles ==
  { [age |-> f.age, income |-> f.income, retirement_years |-> f.retirementYears,
     obligations_amount |-> f.obligationsAmount,
     risk_assessment_mode |-> "manual", risk_tolerance |-> r, classifiedFrom |-> NoCall] :
       f \in ProfileFieldSet, r \in RiskTolerances }
  \cup
  { [age |-> f.age, income |-> f.income, retirement_years |-> f.retirementYears,
     obligations_amount |-> f.obligationsAmount,
     risk_assessment_mode |-> "ai",
     risk_tolerance |-> computeRiskRecommendation(g.age, g.income, g.retirementYears,
                                                  g.obligationsAmount),
     classifiedFrom |-> [g EXCEPT !.obligationsAmount = 0]] :
       f \in ProfileFieldSet, g \in ProfileFieldSet }

\* the form is on the screen
FormShown == profile = Null \/ form.settingsOpen

\* onChange of one of the four inputs (ProfileForm.tsx l.68-103)
ChangeFormField(name, text) ==
  /\ FormShown
  /\ form' = [form EXCEPT ![name] = text]
  /\ UNCHANGED <<priceVars, analysisVars, importVars, editVars, clockVars, riskVars, mergeVars,
                 profile, tasks>>

\* ChooseRiskTolerance, had the select left the mode alone
ChooseRiskTolerance_KeepsMode(value) ==
  /\ FormShown
  /\ form' = [form EXCEPT !.riskTolerance = value]
  /\ UNCHANGED <<priceVars, analysisVars, importVars, editVars, clockVars, riskVars, mergeVars,
                 profile, tasks>>

\* onChange of the risk tolerance select (ProfileForm.tsx l.112-117)
ChooseRiskTolerance(value) ==
  /\ FormShown
  /\ form' = [form EXCEPT !.riskTolerance = value, !.riskAssessmentMode = "manual",
                          !.classifiedFrom = NoCall]
  /\ UNCHANGED <<priceVars, analysisVars, importVars, editVars, clockVars, riskVars, mergeVars,
                 profile, tasks>>

\* handleAiRecommendation (ProfileForm.tsx l.17-36); the settings form does
\* the same and reports missing numbers in settingsError instead of an alert
UseAiRecommendation ==
  /\ FormShown
  /\ LET parsedAge == parseInt(form.age)
         parsedIncome == parseFloat(form.income)
         parsedRetirementYears == parseInt(form.retirementYears)
         parsedObligations == parseFloat(IF form.obligationsAmount = "" THEN "0"
                                         ELSE form.obligationsAmount)
         obligations == IF parsedObligations = NaN THEN 0 ELSE parsedObligations
     IN IF parsedAge = NaN \/ parsedIncome = NaN \/ parsedRetirementYears = NaN
          THEN form' = IF profile = Null
                       THEN [form EXCEPT !.alert =
                               "Enter age, income, and retirement years to get AI Insights."]
                       ELSE [form EXCEPT !.settingsError =
                               "Enter age, income, and retirement years to get an AI recommendation."]
          ELSE form' = [form EXCEPT
                 !.riskTolerance = computeRiskRecommendation(parsedAge, parsedIncome,
                                                             parsedRetirementYears, obligations),
                 !.riskAssessmentMode = "ai",
                 !.classifiedFrom = [age |-> parsedAge, income |-> parsedIncome,
                                     retirementYears |-> parsedRetirementYears,
                                     obligationsAmount |-> obligations]]
  /\ UNCHANGED <<priceVars, analysisVars, importVars, editVars, clockVars, riskVars, mergeVars,
                 profile, tasks>>

\* openSettings of the application shell: the fields are loaded from the profile
OpenSettings ==
  /\ profile # Null
  /\ ~form.settingsOpen
  /\ form' = [age |-> toString(profile.age),
              income |-> toString(profile.income),
              retirementYears |-> toString(profile.retirement_years),
              obligationsAmount |-> IF profile.obligations_amount = Undefined THEN ""
                                    ELSE toString(profile.obligations_amount),
              riskTolerance |-> profile.risk_tolerance,
              riskAssessmentMode |-> profile.risk_assessment_mode,
              settingsOpen |-> TRUE,
              settingsError |-> NoError,
              alert |-> form.alert,
              classifiedFrom |-> profile.classifiedFrom]
  /\ UNCHANGED <<priceVars, analysisVars, importVars, editVars, clockVars, riskVars, mergeVars,
                 profile, tasks>>

\* closeSettings of the application shell
CloseSettings ==
  /\ profile # Null
  /\ form.settingsOpen
  /\ form' = [form EXCEPT !.settingsOpen = FALSE]
  /\ UNCHANGED <<priceVars, analysisVars, importVars, editVars, clockVars, riskVars, mergeVars,
                 profile, tasks>>

-----------------------------------------------------------------------------
(* WeightedPositionMerger: the server combines a new lot with the position *)
(* already held for its ticker. The client only posts the lot              *)
(* (api.addHolding) and reads the merged holding back; the merge itself is *)
(* modelled from its contract. Prices are exact fractions.                 *)

NoMergeInput == [existing |-> [shares |-> 0, avg_price |-> 0], addedShares |-> 0, addedPrice |-> 0]

NoMerge == [status |-> "none"]

\* merge, had it taken the plain mean of the two prices
merge_PlainMean(existing, addedShares, addedPrice) ==
  LET new_shares == existing.shares + addedShares
  IN IF new_shares = 0
       THEN [status |-> "InvalidState"]
       ELSE [status |-> "ok",
             shares |-> new_shares,
             avg_price |-> Fraction(existing.avg_price + addedPrice, 2)]

\* merge(existing, addedShares, addedPrice)
merge(existing, addedShares, addedPrice) ==
  LET new_shares == existing.shares + addedShares
  IN IF new_shares = 0
       THEN [status |-> "InvalidState"]
       ELSE [status |-> "ok",
             shares |-> new_shares,
             avg_price |-> Fraction(existing.shares * existing.avg_price
                                      + addedShares * addedPrice, new_shares)]

\* share counts and prices that are merged; no shares at all on both sides is
\* the guarded case
MergeShares == {0, 1, 3, 10}
MergePrices == {100, 150, 200}

MergeInputSet ==
  [existing : [shares : MergeShares, avg_price : MergePrices],
   addedShares : MergeShares,
   addedPrice : MergePrices]

\* one call of merge
Merge ==
  /\ mergeResult = NoMerge
  /\ mergeResult' = merge(mergeInput.existing, mergeInput.addedShares, mergeInput.addedPrice)
  /\ UNCHANGED <<priceVars, analysisVars, importVars, editVars, clockVars, riskVars, mergeInput,
                 formVars, tasks>>

-----------------------------------------------------------------------------
(* The state after the component has mounted: the init effect has called   *)
(* loadHoldings (l.279-284); nextAvailableAt is null, so the cooldown      *)
(* effect has set no timer (l.286-289).                                    *)

InitPortfolio ==
  /\ holdings = <<>>
  /\ totalValue = 0
  /\ totalGainLoss = 0
  /\ totalInvested = 0
  /\ portfolioAnalysis = Null
  /\ analysisLoading = FALSE
  /\ analysisError = NoError
  /\ analysisStale = FALSE
  /\ transcriptSummaries = <<>>
  /\ transcriptsLoading = FALSE
  /\ transcriptsError = NoError
  /\ cooldownRemainingSeconds = 0
  /\ nextAvailableAt = NoTime
  /\ lastAnalysisAt = NoTime
  /\ pricesCached = FALSE
  /\ importMode = "merge"
  /\ importErrors = <<>>
  /\ importLoading = FALSE
  /\ importRows = <<BlankRow>>
  /\ editingId = NoId
  /\ editShares = ""
  /\ editAvgPrice = ""
  /\ tasks = [t \in Tasks |-> IF t = 1 THEN [IdleTask EXCEPT !.phase = "getHoldings", !.origin = "init"]
                              ELSE IdleTask]
  /\ analysisTask = IdleAnalysis
  /\ lastCycle = NoCycle
  /\ now = 0
  /\ timer = NoTimer
  /\ intervals = {}

\* The component is mounted again: App renders Portfolio only while the view
\* is 'portfolio' (App.tsx l.135-140), and a page load starts the same way.
\* Every useState takes its initial value (l.252-277), the cleanup of the
\* cooldown effect has cleared the interval (l.299), the promises of the
\* former instance no longer reach this one, and the init effect calls
\* loadHoldings (l.279-284).
Mount ==
  /\ holdings' = <<>>
  /\ totalValue' = 0
  /\ totalGainLoss' = 0
  /\ totalInvested' = 0
  /\ portfolioAnalysis' = Null
  /\ analysisLoading' = FALSE
  /\ analysisError' = NoError
  /\ analysisStale' = FALSE
  /\ transcriptSummaries' = <<>>
  /\ transcriptsLoading' = FALSE
  /\ transcriptsError' = NoError
  /\ cooldownRemainingSeconds' = 0
  /\ nextAvailableAt' = NoTime
  /\ lastAnalysisAt' = NoTime
  /\ pricesCached' = FALSE
  /\ importMode' = "merge"
  /\ importErrors' = <<>>
  /\ importLoading' = FALSE
  /\ importRows' = <<BlankRow>>
  /\ editingId' = NoId
  /\ editShares' = ""
  /\ editAvgPrice' = ""
  /\ tasks' = [t \in Tasks |-> IF t = 1 THEN [IdleTask EXCEPT !.phase = "getHoldings", !.origin = "init"]
                               ELSE IdleTask]
  /\ analysisTask' = IdleAnalysis
  /\ lastCycle' = NoCycle
  /\ timer' = NoTimer
  /\ intervals' = intervals \ {timer.id}
  /\ UNCHANGED <<now, riskVars, mergeVars, formVars>>

-----------------------------------------------------------------------------
(* Specification of the classifier alone: every input, then the call *)

Classify ==
  /\ riskResult = "none"
  /\ riskResult' = computeRiskRecommendation(riskInputs.age, riskInputs.income,
                                             riskInputs.retirementYears,
                                             riskInputs.obligationsAmount)
  /\ UNCHANGED <<priceVars, analysisVars, importVars, editVars, clockVars, riskInputs, mergeVars, formVars, tasks>>

InitRisk ==
  /\ InitPortfolio
  /\ riskInputs \in RiskInputSet
  /\ riskResult = "none"
  /\ mergeInput = NoMergeInput
  /\ mergeResult = NoMerge
  /\ form = BlankForm
  /\ profile = Null

NextRisk == Classify

SpecRisk == InitRisk /\ [][NextRisk]_vars

-----------------------------------------------------------------------------
(* Specification of the merger alone: every lot, then the call *)

InitMerge ==
  /\ InitPortfolio
  /\ riskInputs = NoRiskInputs
  /\ riskResult = "none"
  /\ mergeInput \in MergeInputSet
  /\ mergeResult = NoMerge
  /\ form = BlankForm
  /\ profile = Null

NextMerge == Merge

SpecMerge == InitMerge /\ [][NextMerge]_vars

-----------------------------------------------------------------------------
(* Specification of the two forms: a user without a profile, or with one of *)
(* the profiles the server may hold                                         *)

InitForms ==
  /\ InitPortfolio
  /\ riskInputs = NoRiskInputs
  /\ riskResult = "none"
  /\ mergeInput = NoMergeInput
  /\ mergeResult = NoMerge
  /\ form = BlankForm
  /\ profile \in ServerProfiles \cup {Null}

NextForms ==
  \/ \E name \in FormFields : \E text \in FormTexts[name] : ChangeFormField(name, text)
  \/ \E value \in RiskTolerances : ChooseRiskTolerance(value)
  \/ UseAiRecommendation
  \/ OpenSettings
  \/ CloseSettings

SpecForms == InitForms /\ [][NextForms]_vars

-----------------------------------------------------------------------------
(* Specification of the valuation cycles: the initial load and Sync Holdings *)

Init ==
  /\ InitPortfolio
  /\ riskInputs = NoRiskInputs
  /\ riskResult = "none"
  /\ mergeInput = NoMergeInput
  /\ mergeResult = NoMerge
  /\ form = BlankForm
  /\ profile = Null

NextPrices ==
  \/ \E t \in Tasks : \E list \in HoldingLists : HoldingsResolve(t, list)
  \/ \E t \in Tasks : HoldingsReject(t)
  \/ \E t \in Tasks : \E i \in 1..MaxHoldings : \E outcome \in QuoteOutcomes : QuoteSettle(t, i, outcome)
  \/ RefreshHoldings

SpecPrices == Init /\ [][NextPrices]_vars

-----------------------------------------------------------------------------
(* Specification of the analysis run and its cooldown: the initial load,   *)
(* Run Analysis, its replies, the clock and the interval                   *)

\* the quote outcomes that matter to the analysis run: priced or not
CooldownQuoteOutcomes == { Rejected, [current_price |-> 4, sector |-> "Tech", cached |-> TRUE] }

NextCooldown ==
  \/ \E t \in Tasks : \E list \in {<<>>, OneHolding} : HoldingsResolve(t, list)
  \/ \E t \in Tasks : \E outcome \in CooldownQuoteOutcomes : QuoteSettle(t, 1, outcome)
  \/ ClickRunAnalysis
  \/ \E response \in AnalysisResponses : AnalysisResolve(response)
  \/ AnalysisReject
  \/ \E i \in 1..Len(analysisTask.top) :
       \E outcome \in TranscriptOutcomes(analysisTask.top[i].ticker) : TranscriptSettle(i, outcome)
  \/ Tick
  \/ AdvanceClock

SpecCooldown == Init /\ [][NextCooldown]_vars

\* the interval keeps firing and time keeps passing
SpecCooldownFair == SpecCooldown /\ WF_vars(Tick) /\ WF_vars(AdvanceClock)

-----------------------------------------------------------------------------
(* Specification of the session: the analysis run and its cooldown, with   *)
(* the component unmounted and mounted again                               *)

NextSession ==
  \/ NextCooldown
  \/ Mount

SpecSession == Init /\ [][NextSession]_vars

-----------------------------------------------------------------------------------------------------------------------------------------------------
(* Specification of the handlers that change holdings, next to a cached    *)
(* analysis: edit, delete and import, with the clock at rest               *)

\* the replies of the analysis collaborator that matter here: with and
\* without a cooldown
MutationAnalysisResponses ==
  { [holdings |-> <<>>,
     analysis_meta |-> [cooldown_remaining_seconds |-> c, next_available_at |-> NoTime,
                        last_analysis_at |-> 500]] : c \in {0, 90} }

NextMutation ==
  \/ \E t \in Tasks : \E list \in {<<>>, OneHolding} : HoldingsResolve(t, list)
  \/ \E t \in Tasks : HoldingsReject(t)
  \/ \E t \in Tasks : \E outcome \in CooldownQuoteOutcomes : QuoteSettle(t, 1, outcome)
  \/ ClickRunAnalysis
  \/ \E response \in MutationAnalysisResponses : AnalysisResolve(response)
  \/ \E h \in ShownHoldings : HandleEdit(h)
  \/ HandleCancelEdit
  \/ \E text \in {"", "7"} : ChangeEditShares(text)
  \/ \E h \in ShownHoldings : HandleSaveEdit(h)
  \/ \E h \in ShownHoldings : HandleDelete(h)
  \/ \E t \in Tasks : MutationResolve(t)
  \/ \E t \in Tasks : MutationReject(t)
  \/ ChangeImportTicker(1, "bbb")
  \/ ChangeImportShares(1, "2")
  \/ ChangeImportAvgPrice(1, "3")
  \/ HandleImportHoldings
  \/ \E t \in Tasks : \E valid \in BOOLEAN : ValidateResolve(t, valid)
  \/ \E t \in Tasks : ValidateReject(t)

SpecMutation == Init /\ [][NextMutation]_vars

-----------------------------------------------------------------------------
(* Specification of the transcript coverage of loadAnalysis: replies that   *)
(* carry every short list of valued holdings, no cooldown, the clock at rest *)

\* value and asset type of the holdings an analysis reply may carry
CoverageHoldingPool ==
  { [current_value |-> 400, asset_type |-> NoType],
    [current_value |-> 300, asset_type |-> NoType],
    [current_value |-> 300, asset_type |-> "stock"],
    [current_value |-> -300, asset_type |-> NoType],
    [current_value |-> 500, asset_type |-> "etf"],
    [current_value |-> 400, asset_type |-> "Mutual Fund"] }

\* the ticker of the i-th holding of a reply
CoverageTickers == <<"AAA", "BBB", "CCC", "DDD", "EEE">>

CoverageHoldingLists ==
  UNION { { [i \in 1..n |-> [ticker |-> CoverageTickers[i],
                              current_value |-> pick[i].current_value,
                              asset_type |-> pick[i].asset_type]] :
            pick \in [1..n -> CoverageHoldingPool] } : n \in 0..MaxAnalysisHoldings }

CoverageResponses ==
  { [holdings |-> list,
     analysis_meta |-> [cooldown_remaining_seconds |-> 0, next_available_at |-> NoTime,
                        last_analysis_at |-> 500]] : list \in CoverageHoldingLists }

NextCoverage ==
  \/ \E t \in Tasks : HoldingsResolve(t, OneHolding)
  \/ \E t \in Tasks : QuoteSettle(t, 1, [current_price |-> 4, sector |-> "Tech", cached |-> TRUE])
  \/ ClickRunAnalysis
  \/ \E response \in CoverageResponses : AnalysisResolve(response)
  \/ AnalysisReject
  \/ \E i \in 1..Len(analysisTask.top) :
       \E outcome \in TranscriptOutcomes(analysisTask.top[i].ticker) : TranscriptSettle(i, outcome)

SpecCoverage == Init /\ [][NextCoverage]_vars

-----------------------------------------------------------------------------
(* Specification of the transcript coverage over replies whose holdings     *)
(* have values of 0 or more                                                 *)

ValuedHoldingPool ==
  { [current_value |-> 400, asset_type |-> NoType],
    [current_value |-> 300, asset_type |-> NoType],
    [current_value |-> 0, asset_type |-> NoType],
    [current_value |-> 500, asset_type |-> "etf"] }

ValuedHoldingLists ==
  UNION { { [i \in 1..n |-> [ticker |-> CoverageTickers[i],
                              current_value |-> pick[i].current_value,
                              asset_type |-> pick[i].asset_type]] :
            pick \in [1..n -> ValuedHoldingPool] } : n \in 0..MaxAnalysisHoldings }

ValuedResponses ==
  { [holdings |-> list,
     analysis_meta |-> [cooldown_remaining_seconds |-> 0, next_available_at |-> NoTime,
                        last_analysis_at |-> 500]] : list \in ValuedHoldingLists }

NextValued ==
  \/ \E t \in Tasks : HoldingsResolve(t, OneHolding)
  \/ \E t \in Tasks : QuoteSettle(t, 1, [current_price |-> 4, sector |-> "Tech", cached |-> TRUE])
  \/ ClickRunAnalysis
  \/ \E response \in ValuedResponses : AnalysisResolve(response)
  \/ \E i \in 1..Len(analysisTask.top) :
       TranscriptSettle(i, [ticker |-> analysisTask.top[i].ticker, summary |-> "summary"])

SpecValued == Init /\ [][NextValued]_vars

-----------------------------------------------------------------------------
(* Specification of the import table: rows typed, added and removed, the     *)
(* mode chosen, the import run and the reload after it                       *)

ImportTickerTexts == {"", " ", "bbb", "AAA"}
ImportSharesTexts == {"", "2"}
ImportAvgPriceTexts == {"", "3"}

NextImport ==
  \/ \E t \in Tasks : HoldingsResolve(t, OneHolding)
  \/ \E t \in Tasks : QuoteSettle(t, 1, [current_price |-> 4, sector |-> "Tech", cached |-> TRUE])
  \/ \E r \in 1..Len(importRows) : \E text \in ImportTickerTexts : ChangeImportTicker(r, text)
  \/ \E r \in 1..Len(importRows) : \E text \in ImportSharesTexts : ChangeImportShares(r, text)
  \/ \E r \in 1..Len(importRows) : \E text \in ImportAvgPriceTexts : ChangeImportAvgPrice(r, text)
  \/ \E r \in 1..Len(importRows) : AddImportRowAfter(r)
  \/ \E r \in 1..Len(importRows) : RemoveImportRow(r)
  \/ \E mode \in {"merge", "replace"} : SetImportMode(mode)
  \/ HandleImportHoldings
  \/ \E t \in Tasks : \E valid \in BOOLEAN : ValidateResolve(t, valid)
  \/ \E t \in Tasks : ValidateReject(t)
  \/ \E t \in Tasks : MutationResolve(t)
  \/ \E t \in Tasks : MutationReject(t)

SpecImport == Init /\ [][NextImport]_vars

-----------------------------------------------------------------------------
(* Specification of what is typed into the edit inputs and the first import  *)
(* row: texts of positive, zero and negative numbers, and nothing            *)

EntrySharesTexts == {"", "0", "-2"}
EntryAvgPriceTexts == {"0", "3"}

NextEntry ==
  \/ \E t \in Tasks : HoldingsResolve(t, OneHolding)
  \/ \E t \in Tasks : QuoteSettle(t, 1, [current_price |-> 4, sector |-> "Tech", cached |-> TRUE])
  \/ \E h \in ShownHoldings : HandleEdit(h)
  \/ HandleCancelEdit
  \/ \E text \in EntrySharesTexts : ChangeEditShares(text)
  \/ \E text \in EntryAvgPriceTexts : ChangeEditAvgPrice(text)
  \/ \E h \in ShownHoldings : HandleSaveEdit(h)
  \/ ChangeImportTicker(1, "bbb")
  \/ \E text \in EntrySharesTexts : ChangeImportShares(1, text)
  \/ ChangeImportAvgPrice(1, "3")
  \/ HandleImportHoldings
  \/ \E t \in Tasks : ValidateResolve(t, TRUE)
  \/ \E t \in Tasks : MutationResolve(t)
  \/ \E t \in Tasks : MutationReject(t)

SpecEntry == Init /\ [][NextEntry]_vars

-----------------------------------------------------------------------------
(* Specification of Sync Holdings next to a cached analysis: loads, runs of *)
(* the analysis and re-reads, and no handler that changes holdings          *)

\* quotes that leave Sync Holdings enabled: a failed one and a fresh one
SyncQuoteOutcomes == { Rejected, [current_price |-> 4, sector |-> "Tech", cached |-> FALSE] }

NextSync ==
  \/ \E t \in Tasks : \E list \in {<<>>, OneHolding} : HoldingsResolve(t, list)
  \/ \E t \in Tasks : HoldingsReject(t)
  \/ \E t \in Tasks : \E outcome \in SyncQuoteOutcomes : QuoteSettle(t, 1, outcome)
  \/ RefreshHoldings
  \/ ClickRunAnalysis
  \/ \E response \in MutationAnalysisResponses : AnalysisResolve(response)
  \/ AnalysisReject

SpecSync == Init /\ [][NextSync]_vars

-----------------------------------------------------------------------------
(* Claims about the classifier (SpecRisk) *)

\* the rule of the claim, on an obligations amount with the omitted one read as 0
RuleConservative(in, obligations) ==
  in.retirementYears <= 10 \/ in.age >= 55 \/ obligations >= 2500
RuleAggressive(in, obligations) ==
  in.retirementYears >= 25 /\ in.income >= 100000 /\ obligations <= 1000
ObligationsOrZero(in) ==
  IF in.obligationsAmount = Undefined THEN 0 ELSE in.obligationsAmount

\* C1: classify returns exactly one of the three categories, decided by first
\* match: conservative if retirement_years <= 10 or age >= 55 or obligations
\* >= 2500; otherwise aggressive if retirement_years >= 25 and income >= 100000
\* and obligations <= 1000; otherwise moderate; an omitted obligations amount
\* counts as 0.
C1_ClassifyPrecedence ==
  riskResult # "none" =>
    LET ob == ObligationsOrZero(riskInputs)
    IN /\ riskResult \in {"conservative", "moderate", "aggressive"}
       /\ riskResult = "conservative" <=> RuleConservative(riskInputs, ob)
       /\ riskResult = "aggressive" <=>
            ~RuleConservative(riskInputs, ob) /\ RuleAggressive(riskInputs, ob)
       /\ riskResult = "moderate" <=>
            ~RuleConservative(riskInputs, ob) /\ ~RuleAggressive(riskInputs, ob)

\* the conservative rule has won over a satisfied aggressive gate, on an input
\* that omits the obligations amount
C1_Witness ==
  /\ riskResult = "conservative"
  /\ riskInputs.age = 55
  /\ riskInputs.obligationsAmount = Undefined
  /\ RuleAggressive(riskInputs, 0)

\* obligations strictly between the two thresholds
MidObligations(in) ==
  in.obligationsAmount # Undefined /\ in.obligationsAmount > 1000 /\ in.obligationsAmount < 2500

\* C21: with obligations strictly between 1000 and 2500 classify never
\* returns aggressive; it returns conservative when retirement_years <= 10 or
\* age >= 55 and only then, and moderate otherwise.
C21_MidObligationsNeverAggressive ==
  (riskResult # "none" /\ MidObligations(riskInputs)) =>
    /\ riskResult # "aggressive"
    /\ riskResult = (IF riskInputs.retirementYears <= 10 \/ riskInputs.age >= 55
                       THEN "conservative" ELSE "moderate")

\* an input that passes the other two tests of the aggressive rule, with
\* obligations just above 1000, has been classified moderate
C21_Witness ==
  /\ riskInputs = [age |-> 40, income |-> 500000, retirementYears |-> 30, obligationsAmount |-> 1001]
  /\ riskResult = "moderate"

-----------------------------------------------------------------------------
(* Claims about a valuation cycle (SpecPrices) *)

\* the settled outcome of the price request issued for the i-th holding of the
\* cycle whose output is shown
OutcomeOf(i) == lastCycle.outcomes[i]
Shown == lastCycle.shown
ShownIndexes == 1..Len(lastCycle.base)

\* the PricedHolding of the data model when no price is available
IsFallback(h) ==
  /\ h.current_price = NoPrice
  /\ h.current_value = 0
  /\ h.gain_loss = 0
  /\ h.gain_loss_pct = [num |-> 0, den |-> 1]
  /\ h.price_loading = FALSE

\* the PricedHolding a holding gets from a quote that is its own
PricedFrom(h, base, reply) ==
  IF reply.current_price = NoPrice \/ reply.current_price = 0
    THEN IsFallback(h)
    ELSE /\ h.current_price = reply.current_price
         /\ h.current_value = base.shares * reply.current_price
         /\ h.gain_loss = h.current_value - base.shares * base.avg_price
         /\ h.sector = IF reply.sector = NoSector THEN "Unknown" ELSE reply.sector

\* C7 (as claimed): when a holding's quote request fails the cycle still
\* completes; that holding is emitted with no current price, value 0, gain 0,
\* percentage 0 and sector "Unknown", and every holding whose own request
\* succeeded is priced from its own quote, as if nothing had failed.
C7_FailedQuoteFallsBack ==
  Shown =>
    /\ Len(holdings) = Len(lastCycle.base)
    /\ \A i \in ShownIndexes :
         IF OutcomeOf(i) = Rejected
           THEN IsFallback(holdings[i]) /\ holdings[i].sector = "Unknown"
           ELSE PricedFrom(holdings[i], lastCycle.base[i], OutcomeOf(i))

\* the same statement for cycles whose holdings all have different tickers
C7_HoldsForDistinctTickers ==
  (Shown /\ \A i, j \in ShownIndexes :
              i # j => lastCycle.base[i].ticker # lastCycle.base[j].ticker)
    => C7_FailedQuoteFallsBack

\* a cycle in which one request failed and another succeeded with a price
C7_Witness ==
  /\ Shown
  /\ \E i, j \in ShownIndexes :
       /\ OutcomeOf(i) = Rejected
       /\ OutcomeOf(j) # Rejected
       /\ lastCycle.base[i].ticker # lastCycle.base[j].ticker
       /\ holdings[j].current_price = 4
       /\ IsFallback(holdings[i])

\* the quote the join step finds for the i-th holding
JoinedQuote(i) ==
  FindPriceData(PriceResults(lastCycle.base, lastCycle.outcomes), lastCycle.base[i].ticker)

\* the valuation fields of the data model, for a holding priced at `price`
ValuedAt(h, price) ==
  LET cost == h.shares * h.avg_price
  IN /\ h.current_value = h.shares * price
     /\ h.gain_loss = h.current_value - cost
     /\ IF cost > 0
          THEN h.gain_loss_pct.num * cost = h.gain_loss * 100 * h.gain_loss_pct.den
          ELSE h.gain_loss_pct.num = 0

RECURSIVE PlainSum(_, _)
\* f[1] + ... + f[n]
PlainSum(f, n) == IF n = 0 THEN 0 ELSE PlainSum(f, n - 1) + f[n]

CostBasisOf(h) == h.shares * h.avg_price

\* C9: after a valuation cycle the three totals are the plain sums of
\* current_value, gain_loss and cost basis over every produced holding; a
\* holding emitted without a price is counted like the others and adds 0 to
\* the total value and to the total gain or loss.
C9_TotalsArePlainSums ==
  Shown =>
    /\ Len(holdings) = Len(lastCycle.base)
    /\ totalValue = PlainSum([i \in ShownIndexes |-> holdings[i].current_value], Len(holdings))
    /\ totalGainLoss = PlainSum([i \in ShownIndexes |-> holdings[i].gain_loss], Len(holdings))
    /\ totalInvested = PlainSum([i \in ShownIndexes |-> CostBasisOf(lastCycle.base[i])], Len(holdings))
    /\ \A i \in ShownIndexes :
         holdings[i].current_price = NoPrice =>
           holdings[i].current_value = 0 /\ holdings[i].gain_loss = 0

\* a cycle with one failed lookup and one priced holding: the failed one is in
\* the invested total only
C9_Witness ==
  /\ Shown
  /\ Len(holdings) = 2
  /\ OutcomeOf(1) = Rejected
  /\ holdings[1].current_price = NoPrice
  /\ CostBasisOf(holdings[1]) = 6
  /\ holdings[2].current_value = 12
  /\ totalValue = 12
  /\ totalGainLoss = 12
  /\ totalInvested = 6

\* C10: all_prices_cached is computed over all results of the cycle, failed
\* ones included: true iff there is at least one result and every result was
\* fulfilled with cached = true; so false for an empty list and false when any
\* request failed.
C10_AllCachedOverAllResults ==
  Shown =>
    pricesCached =
      (/\ Len(lastCycle.outcomes) > 0
       /\ \A i \in ShownIndexes :
            IF OutcomeOf(i) = Rejected THEN FALSE ELSE OutcomeOf(i).cached)

\* a cycle in which one request failed and the other was served from the cache
C10_Witness ==
  /\ Shown
  /\ Len(lastCycle.outcomes) = 2
  /\ OutcomeOf(1) # Rejected /\ OutcomeOf(1).cached
  /\ OutcomeOf(2) = Rejected
  /\ ~pricesCached

-----------------------------------------------------------------------------
(* Claims about the transcript coverage (SpecCoverage) *)

\* the fund-filtered holdings of a reply, sorted by value
CoverageCandidates(response) == sortedHoldings(filteredHoldings(response.holdings))

ValuesOf(list) == [i \in 1..Len(list) |-> list[i].current_value]

\* the rule of the claim: the values before the k-th candidate, over the total,
\* are below 0.70
SelectedAt(sorted, k) ==
  LET total == SumSeq(ValuesOf(sorted))
      before == SumSeq(ValuesOf(SubSeq(sorted, 1, k - 1)))
  IN total > 0 /\ before * 100 < 70 * total

\* the transcript requests loadAnalysis issues in this step are those for `list`
RequestsTranscriptsFor(list) ==
  IF list = <<>>
    THEN analysisTask'.phase = "idle"
    ELSE analysisTask'.phase = "transcripts" /\ analysisTask'.top = list

\* C12: over the fund-filtered holdings sorted by value, nothing is selected when
\* the total is <= 0; otherwise a holding is selected iff the values before it
\* over the total are below 0.70, and the selection is a prefix of the list.
C12_CoverageIsPrefix ==
  [][(portfolioAnalysis' # Null /\ AnalysisResolve(portfolioAnalysis')) =>
         LET sorted == CoverageCandidates(portfolioAnalysis')
             picked == { k \in 1..Len(sorted) : SelectedAt(sorted, k) }
         IN /\ \A k \in 1..Len(sorted) : k \in picked <=> k <= Cardinality(picked)
            /\ \A k \in 1..(Len(sorted) - 1) :
                 sorted[k].current_value >= sorted[k + 1].current_value
            /\ RequestsTranscriptsFor(SubSeq(sorted, 1, Cardinality(picked)))]_vars

\* the reply carries values 400, 300, 300 and the first two are selected
C12_Witness ==
  /\ analysisTask.phase = "transcripts"
  /\ portfolioAnalysis # Null
  /\ ValuesOf(portfolioAnalysis.holdings) = <<400, 300, 300>>
  /\ \A i \in 1..3 : KeepsHolding(portfolioAnalysis.holdings[i])
  /\ Len(analysisTask.top) = 2
  /\ analysisTask.top[1].current_value = 400
  /\ analysisTask.top[2].current_value = 300

\* the spellings of the three fund types that occur
FundSpellings == {"etf", "ETF", "Mutual Fund", "MUTUAL FUND", "fund", "FUND"}

NotFund(holding) == holding.asset_type \notin FundSpellings

\* the holdings transcript requests are issued for in this step
RequestedNow == IF analysisTask'.phase = "transcripts" THEN analysisTask'.top ELSE <<>>

\* C13: no transcript request is issued for a holding whose asset type is, in
\* any spelling, ETF, MUTUAL FUND or FUND; such holdings do not count toward the
\* total of the 70% rule; holdings without an asset type are kept.
C13_FundsLeftOut ==
  [][(portfolioAnalysis' # Null /\ AnalysisResolve(portfolioAnalysis')) =>
       LET others == SelectSeq(portfolioAnalysis'.holdings, NotFund)
           total == SumSeq(ValuesOf(others))
           top == RequestedNow
       IN /\ \A k \in 1..Len(top) : NotFund(top[k])
          /\ \A k \in 1..Len(top) : \E i \in 1..Len(others) : others[i] = top[k]
          /\ total <= 0 => top = <<>>
          /\ total > 0 =>
               /\ Len(top) > 0
               /\ \A i \in 1..Len(others) : top[1].current_value >= others[i].current_value
               /\ SumSeq(ValuesOf(SubSeq(top, 1, Len(top) - 1))) * 100 < 70 * total
               /\ \/ SumSeq(ValuesOf(top)) * 100 >= 70 * total
                  \/ Len(top) = Len(others)]_vars

\* the most valuable holding of the reply is an ETF, and the requests go to the
\* holding without an asset type that makes up the whole total
C13_Witness ==
  /\ analysisTask.phase = "transcripts"
  /\ portfolioAnalysis # Null
  /\ Len(portfolioAnalysis.holdings) = 3
  /\ portfolioAnalysis.holdings[1] = [ticker |-> "AAA", current_value |-> 500, asset_type |-> "etf"]
  /\ portfolioAnalysis.holdings[2] = [ticker |-> "BBB", current_value |-> 400, asset_type |-> NoType]
  /\ portfolioAnalysis.holdings[3].asset_type = "Mutual Fund"
  /\ analysisTask.top = <<portfolioAnalysis.holdings[2]>>

\* the step in which the last transcript request settles
FanOutEnds == analysisTask.phase = "transcripts" /\ analysisTask'.phase = "idle"

\* C14: after the transcript fan-out the summary map holds exactly the selected
\* tickers whose request succeeded; the partial-failure flag is set iff a request
\* failed; the analysis itself stays a success: its record is kept, no analysis
\* error is raised and the run ends.
C14_PartialTranscripts ==
  [][FanOutEnds =>
       LET top == analysisTask.top
           results == analysisTask.results
           last == CHOOSE i \in 1..Len(top) : results[i] = Pending
           settled == (1..Len(top)) \ {last}
           succeeded == { top[i].ticker : i \in { j \in settled : results[j] # Rejected } }
           failedBefore == \E i \in settled : results[i] = Rejected
       IN /\ \E ok \in BOOLEAN :
               /\ DOMAIN transcriptSummaries' =
                    succeeded \cup (IF ok THEN {top[last].ticker} ELSE {})
               /\ (transcriptsError' # NoError) = (failedBefore \/ ~ok)
          /\ portfolioAnalysis' = portfolioAnalysis
          /\ portfolioAnalysis # Null
          /\ analysisError' = NoError
          /\ ~analysisLoading'
          /\ ~transcriptsLoading']_vars

\* two tickers were selected, the request for the first succeeded and the one
\* for the second failed
C14_Witness ==
  /\ analysisTask.phase = "idle"
  /\ portfolioAnalysis # Null
  /\ ValuesOf(portfolioAnalysis.holdings) = <<400, 300, 300>>
  /\ \A i \in 1..3 : KeepsHolding(portfolioAnalysis.holdings[i])
  /\ DOMAIN transcriptSummaries = {"AAA"}
  /\ transcriptsError # NoError
  /\ analysisError = NoError
  /\ ~analysisLoading

\* the share of the total that the first k candidates hold is 0.70 or more
ReachesMark(sorted, k) ==
  SumSeq(ValuesOf(SubSeq(sorted, 1, k))) * 100 >= 70 * SumSeq(ValuesOf(sorted))

\* the candidates that are requested in this step, by position
Requested(sorted) ==
  { k \in 1..Len(sorted) :
      /\ analysisTask'.phase = "transcripts"
      /\ \E i \in 1..Len(analysisTask'.top) : analysisTask'.top[i] = sorted[k] }

\* C27 (as claimed): the holding whose value brings the cumulative share to
\* exactly 0.70 or beyond is excluded from the selected set.
C27_HoldingAtTheMarkExcluded ==
  [][(portfolioAnalysis' # Null /\ AnalysisResolve(portfolioAnalysis')) =>
       LET sorted == CoverageCandidates(portfolioAnalysis')
       IN \A k \in 1..Len(sorted) :
            (SumSeq(ValuesOf(sorted)) > 0 /\ ReachesMark(sorted, k)) =>
              k \notin Requested(sorted)]_vars

\* C27 (amended): a holding is excluded when the holdings before it already
\* hold 0.70 of the total or more; the first holding whose value brings the
\* cumulative share to exactly 0.70 or beyond is itself selected, as the last
\* one, and every holding after it is excluded.
C27_HoldingAtTheMarkIsLastSelected ==
  [][(portfolioAnalysis' # Null /\ AnalysisResolve(portfolioAnalysis')) =>
       LET sorted == CoverageCandidates(portfolioAnalysis')
           atMark == { k \in 1..Len(sorted) : ReachesMark(sorted, k) }
       IN SumSeq(ValuesOf(sorted)) > 0 =>
            /\ atMark # {}
            /\ LET first == CHOOSE k \in atMark : \A j \in atMark : k <= j
               IN /\ analysisTask'.phase = "transcripts"
                  /\ analysisTask'.top = SubSeq(sorted, 1, first)]_vars

\* the reply carries 400, 300 and 300: the second holding brings the share to
\* exactly 0.70 and its transcript is being requested, the third is left out
C27_Witness ==
  /\ analysisTask.phase = "transcripts"
  /\ portfolioAnalysis # Null
  /\ portfolioAnalysis.holdings =
       << [ticker |-> "AAA", current_value |-> 400, asset_type |-> NoType],
          [ticker |-> "BBB", current_value |-> 300, asset_type |-> NoType],
          [ticker |-> "CCC", current_value |-> 300, asset_type |-> "stock"] >>
  /\ { analysisTask.top[i].ticker : i \in 1..Len(analysisTask.top) } = {"AAA", "BBB"}
  /\ analysisTask.results[2] = Pending

-----------------------------------------------------------------------------
(* Claims about the import (SpecImport) *)

\* the texts of a number input that parse as a number
Parseable(text) == text \in {"0", "1", "2", "3", "5", "7"}

BlankText(text) == text \in {"", " "}

RowBlank(row) == BlankText(row.ticker) /\ row.shares = "" /\ row.avg_price = ""

RowInError(row) ==
  /\ ~RowBlank(row)
  /\ BlankText(row.ticker) \/ ~Parseable(row.shares) \/ ~Parseable(row.avg_price)

RowInErrorAt(i) == RowInError(importRows[i])

\* one error for each row in error, naming its position, in row order
RowErrors ==
  LET positions == SelectSeq([i \in 1..Len(importRows) |-> i], RowInErrorAt)
  IN [k \in 1..Len(positions) |-> [kind |-> "row", row |-> positions[k]]]

\* C15: a click on Import skips a row whose three fields are blank, reports one
\* error naming the position of every other row without a ticker or without a
\* parseable shares or price, examines all rows, and with any such error issues
\* no ticker validation and no bulk upsert.
C15_RowErrorsStopImport ==
  [][HandleImportHoldings =>
       /\ importErrors' = RowErrors
       /\ RowErrors # <<>> => (tasks' = tasks /\ ~importLoading')]_vars

\* after a click on two rows, the first without shares and the second complete:
\* one error, for row 1, and nothing under way
C15_Witness ==
  /\ importRows = <<[ticker |-> "bbb", shares |-> "", avg_price |-> "3"],
                    [ticker |-> "AAA", shares |-> "2", avg_price |-> "3"]>>
  /\ importErrors = <<[kind |-> "row", row |-> 1]>>
  /\ ~importLoading
  /\ \A t \in Tasks : tasks[t].phase = "idle"
  /\ Len(holdings) = 1

\* the tickers of the rows of a bulk request, each once
DistinctTickers(rows) == { rows[i].ticker : i \in 1..Len(rows) }

\* `list` names every element of `set` exactly once
ListsOnce(list, set) ==
  /\ { list[i] : i \in 1..Len(list) } = set
  /\ Len(list) = Cardinality(set)

\* C16: a bulk upsert is issued only after every distinct ticker of the valid
\* rows was validated remotely, one after the other, as valid; a ticker reported
\* invalid ends the import with an error naming it, with no bulk upsert and with
\* holdings and the stale flag as they were.
C16_PreflightBeforeUpsert ==
  /\ [](\A t \in Tasks :
          /\ tasks[t].phase = "validate" =>
               LET left == { tasks[t].unchecked[i] : i \in 1..Len(tasks[t].unchecked) }
               IN /\ tasks[t].unchecked # <<>>
                  /\ Len(tasks[t].unchecked) = Cardinality(left)
                  /\ left \subseteq DistinctTickers(tasks[t].payload.holdings)
          /\ tasks[t].phase = "bulk" => tasks[t].unchecked = <<>>)
  /\ [][\A t \in Tasks :
          /\ (tasks[t].phase # "validate" /\ tasks'[t].phase = "validate") =>
               ListsOnce(tasks'[t].unchecked, DistinctTickers(tasks'[t].payload.holdings))
          /\ tasks'[t].phase = "bulk" => tasks[t].phase \in {"validate", "bulk"}
          /\ (tasks[t].phase = "validate" /\ tasks'[t] # tasks[t]) =>
               \/ /\ tasks'[t].phase = IF Len(tasks[t].unchecked) = 1 THEN "bulk" ELSE "validate"
                  /\ tasks'[t].unchecked = Tail(tasks[t].unchecked)
                  /\ tasks'[t].payload = tasks[t].payload
               \/ /\ tasks'[t].phase = "idle"
                  /\ holdings' = holdings
                  /\ analysisStale' = analysisStale
                  /\ ~importLoading'
          /\ ValidateResolve(t, FALSE) =>
               /\ importErrors' = <<[kind |-> "ticker", ticker |-> Head(tasks[t].unchecked)]>>
               /\ tasks'[t].phase = "idle"]_vars

\* the rows name BBB and AAA; BBB was validated and AAA was reported invalid
C16_Witness ==
  /\ importRows = <<[ticker |-> "bbb", shares |-> "2", avg_price |-> "3"],
                    [ticker |-> "AAA", shares |-> "2", avg_price |-> "3"]>>
  /\ importErrors = <<[kind |-> "ticker", ticker |-> "AAA"]>>
  /\ ~importLoading
  /\ ~analysisStale
  /\ \A t \in Tasks : tasks[t].phase = "idle"

\* the rows of the table that are not blank, as the bulk request carries them
FilledRows ==
  LET filled == SelectSeq(importRows, LAMBDA row : ~RowBlank(row))
  IN [i \in 1..Len(filled) |->
        [ticker |-> TickerToUpperCase(trim(filled[i].ticker)),
         shares |-> parseFloat(filled[i].shares),
         avg_price |-> parseFloat(filled[i].avg_price)]]

ImportRuns(t) == tasks[t].origin = "import"

\* C17: an import issues one bulk upsert, after the pre-flight, carrying the
\* mode selected and every valid row of the table when Import was clicked; when
\* the upsert succeeds the holdings are reloaded and, once the reload has ended,
\* the analysis is marked stale.
C17_OneUpsertWithModeAndRows ==
  [][/\ (HandleImportHoldings /\ RowErrors = <<>> /\ FilledRows # <<>>) =>
          \E t \in Tasks :
            /\ tasks[t].phase = "idle"
            /\ tasks'[t].phase = "validate"
            /\ tasks'[t].payload = [mode |-> importMode, holdings |-> FilledRows]
     /\ \A t \in Tasks :
          /\ (ImportRuns(t) /\ tasks'[t].phase # "idle") =>
               /\ tasks'[t].payload = tasks[t].payload
               /\ tasks'[t].origin = "import"
          /\ (tasks'[t].phase = "bulk" /\ tasks[t].phase # "bulk") =>
               ImportRuns(t) /\ tasks[t].phase = "validate"
          /\ (tasks[t].phase = "bulk" /\ tasks'[t] # tasks[t]) =>
               tasks'[t].phase \in {"getHoldings", "idle"}
          /\ MutationResolve(t) => tasks'[t].phase = "getHoldings"
          /\ (ImportRuns(t) /\ tasks[t].phase \in {"getHoldings", "quotes"}) =>
               /\ tasks'[t].phase \in {"getHoldings", "quotes", "idle"}
               /\ tasks'[t].phase = "idle" =>
                    (analysisStale' /\ importRows' = <<BlankRow>> /\ ~importLoading')]_vars

\* a replace import of two rows has been committed and reloaded
C17_Witness ==
  /\ importMode = "replace"
  /\ analysisStale
  /\ importRows = <<BlankRow>>
  /\ importErrors = <<>>
  /\ ~importLoading
  /\ Len(holdings) = 1
  /\ \A t \in Tasks : tasks[t].phase = "idle"

-----------------------------------------------------------------------------
(* Claims about the quote batch of a valuation cycle (SpecPrices) *)

PendingQuotes(t) == { i \in 1..Len(tasks[t].outcomes) : tasks[t].outcomes[i] = Pending }

\* the step in which the last quote request of a cycle settles, or in which a
\* cycle ends with no request to wait for
BatchSettles(t) ==
  /\ tasks'[t].phase = "idle"
  /\ \/ tasks[t].phase = "quotes" /\ Cardinality(PendingQuotes(t)) = 1
     \/ tasks[t].phase = "getHoldings"

\* a step that writes priced holdings, a total or all_prices_cached
WritesPricedResult ==
  \/ totalValue' # totalValue
  \/ totalGainLoss' # totalGainLoss
  \/ totalInvested' # totalInvested
  \/ pricesCached' # pricesCached
  \/ holdings' # holdings /\ \E i \in 1..Len(holdings') : ~holdings'[i].price_loading

\* C22: a cycle publishes nothing priced before its whole quote batch has
\* settled: priced holdings, totals and all_prices_cached are written only in
\* the step that settles the last request of a cycle, the published cycle has
\* an outcome for every request, and a failed request leaves every other
\* request of the batch as it was, pending ones pending.
C22_NothingBeforeBatchSettles ==
  /\ [][WritesPricedResult => \E t \in Tasks : BatchSettles(t)]_vars
  /\ [](lastCycle.shown =>
          /\ Len(lastCycle.outcomes) = Len(lastCycle.base)
          /\ \A i \in 1..Len(lastCycle.outcomes) : lastCycle.outcomes[i] # Pending)
  /\ [][\A t \in Tasks : \A i \in 1..MaxHoldings :
          (QuoteSettle(t, i, Rejected) /\ Cardinality(PendingQuotes(t)) > 1) =>
            /\ tasks'[t].phase = "quotes"
            /\ \A j \in 1..Len(tasks[t].outcomes) :
                 j # i => tasks'[t].outcomes[j] = tasks[t].outcomes[j]
            /\ UNCHANGED priceVars]_vars

\* a cycle has been published whose first request failed and whose second
\* request then succeeded with a price
C22_Witness ==
  /\ lastCycle.shown
  /\ Len(lastCycle.base) = 2
  /\ lastCycle.base[1].ticker # lastCycle.base[2].ticker
  /\ lastCycle.outcomes[1] = Rejected
  /\ lastCycle.outcomes[2] # Rejected
  /\ Len(holdings) = 2
  /\ holdings[1].current_price = NoPrice
  /\ holdings[2].current_price = 4
  /\ totalValue = 12

\* the displayed list and totals are those of one cycle over the list `base`
ShowsCycleOf(hs, value, gainLoss, invested, base) ==
  /\ Len(hs) = Len(base)
  /\ \A i \in 1..Len(hs) :
       /\ hs[i].id = base[i].id
       /\ hs[i].shares = base[i].shares
       /\ hs[i].avg_price = base[i].avg_price
       /\ ~hs[i].price_loading
  /\ value = PlainSum([i \in 1..Len(hs) |-> hs[i].current_value], Len(hs))
  /\ gainLoss = PlainSum([i \in 1..Len(hs) |-> hs[i].gain_loss], Len(hs))
  /\ invested = PlainSum([i \in 1..Len(hs) |-> CostBasisOf(base[i])], Len(hs))

\* the holdings as the list shows them, without their priced fields
ShownBase ==
  [i \in 1..Len(holdings) |->
     [id |-> holdings[i].id, ticker |-> holdings[i].ticker,
      shares |-> holdings[i].shares, avg_price |-> holdings[i].avg_price]]

NoCycleRuns == \A t \in Tasks : tasks[t].phase = "idle"

\* C23: when valuation cycles overlap, the cycle whose quote batch settles
\* writes its own priced holdings and totals over what is displayed, whichever
\* cycle started first; between two such steps only the start of a cycle
\* changes the list, so that once every cycle has finished the displayed
\* holdings and totals are those of the batch that settled last, never a mix.
C23_LastSettledCycleWins ==
  /\ [][\A t \in Tasks :
          (tasks[t].phase = "quotes" /\ tasks'[t].phase = "idle") =>
            ShowsCycleOf(holdings', totalValue', totalGainLoss', totalInvested',
                         tasks[t].base)]_vars
  /\ [][<<holdings, totalValue, totalGainLoss, totalInvested>>'
          # <<holdings, totalValue, totalGainLoss, totalInvested>> =>
          \E t \in Tasks :
            \/ tasks[t].phase = "quotes" /\ tasks'[t].phase = "idle"
            \/ tasks[t].phase = "getHoldings" /\ tasks'[t].phase = "quotes"
            \/ tasks[t].phase = "getHoldings" /\ tasks'[t].phase = "idle" /\ holdings' = <<>>]_vars
  /\ [](NoCycleRuns =>
          ShowsCycleOf(holdings, totalValue, totalGainLoss, totalInvested, ShownBase))

\* the initial load is still waiting for its quotes while a refresh that
\* started after it has published another list
C23_Witness ==
  /\ tasks[1].origin = "init"
  /\ tasks[1].phase = "quotes"
  /\ tasks[2].phase = "idle"
  /\ lastCycle.shown
  /\ Len(lastCycle.base) = 1
  /\ lastCycle.base # tasks[1].base
  /\ Len(holdings) = 1
  /\ holdings[1].id = lastCycle.base[1].id
  /\ totalInvested = CostBasisOf(lastCycle.base[1])
  /\ totalInvested > 0

\* a fulfilled quote that carries no price
PriceLess(outcome) == outcome # Rejected /\ outcome.current_price = NoPrice

DistinctTickersShown ==
  \A i, j \in ShownIndexes : i # j => lastCycle.base[i].ticker # lastCycle.base[j].ticker

\* C28: a quote request that succeeds without a price is treated as a failed
\* one: the holding is shown as the fallback with sector "Unknown", and
\* all_prices_cached is false for the cycle.
C28_PriceLessLikeFailed ==
  (Shown /\ DistinctTickersShown) =>
    \A i \in ShownIndexes :
      PriceLess(OutcomeOf(i)) =>
        /\ IsFallback(holdings[i])
        /\ holdings[i].sector = "Unknown"
        /\ ~pricesCached

\* the only quote of a cycle came without a price, with a sector and
\* cached = true: the sector of the reply is shown and the prices count as cached
C28_Witness ==
  /\ Shown
  /\ Len(lastCycle.base) = 1
  /\ PriceLess(OutcomeOf(1))
  /\ IsFallback(holdings[1])
  /\ holdings[1].sector = "Tech"
  /\ pricesCached

\* C29: a cycle issues one quote request for each distinct ticker of the
\* holding list, and holdings are joined to the results by ticker: two
\* holdings of one ticker cause a single request and are shown with the same
\* price and sector.
C29_OneRequestPerTicker ==
  /\ \A t \in Tasks :
       tasks[t].phase = "quotes" =>
         Len(tasks[t].outcomes) = Cardinality({ tasks[t].base[i].ticker : i \in 1..Len(tasks[t].base) })
  /\ Shown =>
       \A i, j \in ShownIndexes :
         lastCycle.base[i].ticker = lastCycle.base[j].ticker =>
           /\ holdings[i].current_price = holdings[j].current_price
           /\ holdings[i].sector = holdings[j].sector

\* two requests of one cycle are in flight for the same ticker, and one of
\* them has failed
C29_Witness ==
  \E t \in Tasks :
    /\ tasks[t].phase = "quotes"
    /\ Len(tasks[t].base) = 2
    /\ tasks[t].base[1].ticker = tasks[t].base[2].ticker
    /\ tasks[t].outcomes[1] = Rejected
    /\ tasks[t].outcomes[2] = Pending

-----------------------------------------------------------------------------
(* Claims about the reuse of transcript summaries (SpecCooldown). The       *)
(* quarter label is taken from the date (l.408-409); the clock of the model *)
(* spans minutes, so every run of it falls in one quarter.                  *)

\* summaries of a fan-out of this quarter are held
HoldsSummaries == DOMAIN transcriptSummaries # {}

\* C20: once a fan-out has obtained at least one summary, the summaries are
\* kept for the quarter and a later coverage request of that quarter is
\* served from them: no transcript request is issued again.
C20_CoverageServedFromCache ==
  [][(HoldsSummaries /\ analysisTask.phase = "request") =>
       analysisTask'.phase # "transcripts"]_vars

\* summaries of an earlier fan-out are held while the transcript requests of
\* a later run are in flight
C20_Witness ==
  /\ HoldsSummaries
  /\ analysisTask.phase = "transcripts"
  /\ \E i \in 1..Len(analysisTask.top) :
       /\ analysisTask.top[i].ticker \in DOMAIN transcriptSummaries
       /\ analysisTask.results[i] = Pending

-----------------------------------------------------------------------------
(* Claims about the interval of the cooldown effect (SpecSession) *)

\* C24: at most one interval of the cooldown is live at any time: it is the
\* one the current effect set, a change of next_available_at clears the
\* former interval before the next one is set, and no interval is live while
\* next_available_at is absent or after the view has been torn down.
C24_OneCooldownTimer ==
  /\ [](Cardinality(intervals) <= 1)
  /\ [](intervals = IF timer.active THEN {timer.id} ELSE {})
  /\ [](nextAvailableAt = NoTime => intervals = {})
  /\ [][nextAvailableAt' # nextAvailableAt =>
          IF nextAvailableAt' = NoTime
            THEN intervals' = {}
            ELSE /\ intervals' = {timer'.id}
                 /\ timer.id \notin intervals'
                 /\ timer'.fired = 0
                 /\ timer'.due = now + TickIntervalMs]_vars
  /\ [][Mount => intervals' = {}]_vars

\* the interval in place is the second one set, and the first is no longer live
C24_Witness ==
  /\ intervals = {2}
  /\ timer.id = 2
  /\ timer.active
  /\ timer.fired = 0
  /\ timer.due = now + TickIntervalMs
  /\ nextAvailableAt = 90000
  /\ portfolioAnalysis # Null

-----------------------------------------------------------------------------
(* Claims about a failed analysis call (SpecCooldown) *)

\* C25: when the analysis call fails, one error message is set; the cached
\* record, the stale flag, the cooldown data and the transcript summaries stay
\* as they were; the loading flag is false again, so that only an empty list
\* or a running cooldown keeps Run Analysis disabled; and no request is issued
\* again unless Run Analysis is clicked.
C25_FailedAnalysisKeepsRecord ==
  /\ [][AnalysisReject =>
          /\ analysisError' # NoError
          /\ UNCHANGED <<portfolioAnalysis, analysisStale, cooldownRemainingSeconds,
                         nextAvailableAt, lastAnalysisAt, transcriptSummaries>>
          /\ ~analysisLoading'
          /\ analysisTask'.phase = "idle"
          /\ RunDisabled' <=> (Len(holdings') = 0 \/ cooldownRemainingSeconds' > 0)]_vars
  /\ [][(analysisTask.phase # "request" /\ analysisTask'.phase = "request") =>
          (ClickRunAnalysis /\ ~RunDisabled)]_vars

\* a run has failed next to a cached record and its summaries, and Run
\* Analysis is enabled again
C25_Witness ==
  /\ analysisError # NoError
  /\ portfolioAnalysis # Null
  /\ DOMAIN transcriptSummaries # {}
  /\ analysisTask.phase = "idle"
  /\ ~analysisLoading
  /\ ~RunDisabled

\* a step that issues transcript requests
IssuesTranscriptRequests ==
  analysisTask.phase # "transcripts" /\ analysisTask'.phase = "transcripts"

TickersOf(list) == { list[i].ticker : i \in 1..Len(list) }

\* C26: transcript requests are issued only in the step in which the analysis
\* call of the run succeeds, one for each holding selected from the holdings
\* of that reply; a failed call and a click that is rejected issue none.
C26_TranscriptsAfterAnalysis ==
  /\ [][IssuesTranscriptRequests =>
          /\ analysisTask.phase = "request"
          /\ portfolioAnalysis' # Null
          /\ AnalysisResolve(portfolioAnalysis')
          /\ analysisTask'.top # <<>>
          /\ TickersOf(analysisTask'.top) \subseteq TickersOf(portfolioAnalysis'.holdings)
          /\ Len(analysisTask'.results) = Len(analysisTask'.top)
          /\ \A i \in 1..Len(analysisTask'.top) :
               /\ analysisTask'.results[i] = Pending
               /\ \E k \in 1..Len(portfolioAnalysis'.holdings) :
                    analysisTask'.top[i] = portfolioAnalysis'.holdings[k]]_vars
  /\ [][(analysisTask.phase = "transcripts" /\ analysisTask'.phase = "transcripts") =>
          /\ analysisTask'.top = analysisTask.top
          /\ portfolioAnalysis' = portfolioAnalysis]_vars
  /\ [][(AnalysisReject \/ (ClickRunAnalysis /\ RunDisabled)) =>
          ~IssuesTranscriptRequests]_vars

\* a run has failed next to a cached record whose holdings had transcripts
\* fetched: nothing is in flight
C26_Witness ==
  /\ analysisError # NoError
  /\ portfolioAnalysis # Null
  /\ topHoldings(portfolioAnalysis.holdings) # <<>>
  /\ analysisTask = IdleAnalysis
  /\ ~transcriptsLoading

-----------------------------------------------------------------------------
(* Claims about the profile form and the settings form (SpecForms) *)

\* the category the three rules give for the numbers `in`
CategoryOf(in) ==
  IF RuleConservative(in, in.obligationsAmount) THEN "conservative"
  ELSE IF RuleAggressive(in, in.obligationsAmount) THEN "aggressive"
  ELSE "moderate"

\* a text that reads as a number
IsNumberText(text) == parseFloat(text) # NaN

\* the numbers the fields of the form hold, an obligations field that is
\* empty or no number as 0
NumbersOfForm ==
  [age |-> parseFloat(form.age), income |-> parseFloat(form.income),
   retirementYears |-> parseFloat(form.retirementYears),
   obligationsAmount |-> IF IsNumberText(form.obligationsAmount)
                         THEN parseFloat(form.obligationsAmount) ELSE 0]

FormComplete == form.age # "" /\ form.income # "" /\ form.retirementYears # ""

\* C30: in either form, while the mode is 'ai' the risk tolerance shown is
\* the classification of the fields as they were when it was last computed;
\* the recommendation action computes it from the fields of that moment and
\* sets the mode to 'ai', an edit of a field changes neither the risk
\* tolerance nor the mode, and a choice in the select sets the mode to 'manual'.
C30_AiToleranceIsOneShot ==
  /\ [](form.riskAssessmentMode = "ai" =>
          /\ form.classifiedFrom # NoCall
          /\ form.riskTolerance = CategoryOf(form.classifiedFrom))
  /\ [][(UseAiRecommendation /\ FormComplete) =>
          /\ form'.riskAssessmentMode = "ai"
          /\ form'.classifiedFrom = NumbersOfForm
          /\ form'.riskTolerance = CategoryOf(NumbersOfForm)]_vars
  /\ [][(\E name \in FormFields : form'[name] # form[name]) =>
          \/ OpenSettings
          \/ /\ form'.riskTolerance = form.riskTolerance
             /\ form'.riskAssessmentMode = form.riskAssessmentMode]_vars
  /\ [][\A value \in RiskTolerances :
          ChooseRiskTolerance(value) =>
            form'.riskTolerance = value /\ form'.riskAssessmentMode = "manual"]_vars

\* in the settings form the recommendation was computed for age 40 and the
\* age was then changed to 60: the mode is still 'ai' and the risk tolerance
\* is the one of age 40
C30_Witness ==
  /\ profile # Null
  /\ form.settingsOpen
  /\ form.riskAssessmentMode = "ai"
  /\ form.riskTolerance = "aggressive"
  /\ form.age = "60"
  /\ form.classifiedFrom.age = 40
  /\ FormComplete
  /\ CategoryOf(NumbersOfForm) = "conservative"

\* one of the three fields the classification needs holds no number
LacksNumber ==
  \/ ~IsNumberText(form.age)
  \/ ~IsNumberText(form.income)
  \/ ~IsNumberText(form.retirementYears)

\* the form that is shown reports an input error
ReportsInputError ==
  IF profile = Null THEN form.alert # NoError ELSE form.settingsError # NoError

\* C31: the recommendation action never classifies an age, income or
\* retirement years that is no number: it then reports an input error and
\* leaves the risk tolerance and the assessment mode as they were; an
\* obligations amount that is blank or no number is classified as 0.
C31_RecommendationRejectsMissingNumbers ==
  /\ [](form.classifiedFrom # NoCall =>
          /\ form.classifiedFrom.age # NaN
          /\ form.classifiedFrom.income # NaN
          /\ form.classifiedFrom.retirementYears # NaN
          /\ form.classifiedFrom.obligationsAmount # NaN)
  /\ [][(UseAiRecommendation /\ LacksNumber) =>
          /\ form'.riskTolerance = form.riskTolerance
          /\ form'.riskAssessmentMode = form.riskAssessmentMode
          /\ form'.classifiedFrom = form.classifiedFrom
          /\ ReportsInputError']_vars
  /\ [][(UseAiRecommendation /\ ~LacksNumber /\ ~IsNumberText(form.obligationsAmount)) =>
          /\ form'.classifiedFrom.obligationsAmount = 0
          /\ form'.riskTolerance = CategoryOf([NumbersOfForm EXCEPT !.obligationsAmount = 0])]_vars

\* the action ran on the profile form with an age but no income: the alert
\* is up, the mode is still 'manual' and the chosen risk tolerance is kept
C31_Witness ==
  /\ profile = Null
  /\ form.age = "40"
  /\ form.income = ""
  /\ form.obligationsAmount = "abc"
  /\ form.alert # NoError
  /\ form.riskAssessmentMode = "manual"
  /\ form.riskTolerance = "aggressive"

-----------------------------------------------------------------------------
(* Claims about the values entered for holdings (SpecEntry) *)

\* the Holding data model on the values of one holding
IsHoldingValues(v) ==
  /\ v.ticker # ""
  /\ TickerToUpperCase(v.ticker) = v.ticker
  /\ v.shares > 0
  /\ v.avg_price > 0

\* the update request of an edit / the bulk upsert of an import is in flight
UpdateInFlight(t) == tasks[t].phase = "update"
BulkInFlight(t) == tasks[t].phase = "bulk"

\* C32: every row of a bulk upsert in flight and the values of every holding
\* update in flight have a non-empty uppercase ticker, shares > 0 and
\* avg_price > 0.
C32_SentValuesFitTheDataModel ==
  \A t \in Tasks :
    /\ UpdateInFlight(t) => IsHoldingValues(tasks[t].payload)
    /\ BulkInFlight(t) =>
         \A i \in 1..Len(tasks[t].payload.holdings) :
           IsHoldingValues(tasks[t].payload.holdings[i])

\* a bulk upsert is in flight whose row has an uppercase ticker, a positive
\* price and no shares
C32_Witness ==
  \E t \in Tasks :
    /\ BulkInFlight(t)
    /\ tasks[t].payload.holdings[1].ticker = "BBB"
    /\ tasks[t].payload.holdings[1].shares = 0
    /\ tasks[t].payload.holdings[1].avg_price = 3

-----------------------------------------------------------------------------
(* Claims about the summaries shown next to a record (SpecCoverage) *)

\* the tickers selected from the holdings of the record that is shown
SelectedOfRecord ==
  LET top == topHoldings(portfolioAnalysis.holdings)
  IN { top[i].ticker : i \in 1..Len(top) }

\* no run of the analysis is in flight
NoRunInFlight == analysisTask.phase = "idle" /\ ~analysisLoading

\* C34: once a run of the analysis has ended, every summary shown belongs to
\* a ticker selected from the holdings of the record shown, also when that
\* record carries no holdings.
C34_SummariesBelongToTheRecord ==
  (portfolioAnalysis # Null /\ NoRunInFlight) =>
    DOMAIN transcriptSummaries \subseteq SelectedOfRecord

\* a record without holdings is shown next to the summary of an earlier run
C34_Witness ==
  /\ portfolioAnalysis # Null
  /\ NoRunInFlight
  /\ portfolioAnalysis.holdings = <<>>
  /\ DOMAIN transcriptSummaries = {"AAA"}
  /\ analysisError = NoError

-----------------------------------------------------------------------------
(* Claims about Sync Holdings (SpecSync) *)

\* the handler of an edit, a delete or an import ends in this step
MutationHandlerEnds ==
  \E t \in Tasks :
    /\ tasks[t].origin \in {"edit", "delete", "import"}
    /\ tasks[t].phase # "idle"
    /\ tasks'[t].phase = "idle"

\* C33: the stale flag becomes true only in a step that ends the handler of
\* an edit, a delete or an import; a re-read of holdings and prices by Sync
\* Holdings never makes a fresh record stale.
C33_StaleOnlyAfterMutation ==
  [][(~analysisStale /\ analysisStale') => MutationHandlerEnds]_vars

\* with no handler that changes holdings, the record is shown as stale
C33_Witness ==
  /\ portfolioAnalysis # Null
  /\ analysisStale
  /\ \A t \in Tasks : tasks[t].phase = "idle"
  /\ ~analysisLoading

-----------------------------------------------------------------------------
(* Claims about the merger (SpecMerge) *)

\* cost of a lot
LotCost(shares, price) == shares * price

\* C19: a merged position holds the shares of both lots, and its average price
\* is the cost of both lots over those shares, so that the cost basis is kept;
\* 10 @ 100 with 10 @ 200 gives 20 @ 150; with no shares in the merged position
\* the merge fails.
C19_MergeKeepsCostBasis ==
  mergeResult # NoMerge =>
    LET existing == mergeInput.existing
        lots == LotCost(existing.shares, existing.avg_price)
                  + LotCost(mergeInput.addedShares, mergeInput.addedPrice)
        total == existing.shares + mergeInput.addedShares
    IN /\ (total = 0) <=> (mergeResult.status = "InvalidState")
       /\ (total # 0) <=> (mergeResult.status = "ok")
       /\ mergeResult.status = "ok" =>
            /\ mergeResult.shares = total
            /\ mergeResult.avg_price.den > 0
            /\ GCD(Abs(mergeResult.avg_price.num), mergeResult.avg_price.den) = 1
            /\ mergeResult.avg_price.num * total = lots * mergeResult.avg_price.den
            /\ (existing = [shares |-> 10, avg_price |-> 100]
                  /\ mergeInput.addedShares = 10 /\ mergeInput.addedPrice = 200) =>
                 mergeResult = [status |-> "ok", shares |-> 20,
                                avg_price |-> [num |-> 150, den |-> 1]]

\* 10 @ 100 and 10 @ 200 have been merged
C19_Witness ==
  /\ mergeInput = [existing |-> [shares |-> 10, avg_price |-> 100],
                   addedShares |-> 10, addedPrice |-> 200]
  /\ mergeResult.status = "ok"
  /\ mergeResult.shares = 20

-----------------------------------------------------------------------------
(* Claims about the start of a session (SpecSession) *)

\* C18: the start of a session restores the cached analysis record with its
\* staleness and cooldown: it issues no analysis request and leaves the
\* record, next_available_at and the remaining cooldown as they were.
C18_SessionStartRestoresRecord ==
  [][Mount => /\ analysisTask'.phase # "request"
              /\ UNCHANGED <<portfolioAnalysis, analysisStale, nextAvailableAt,
                             lastAnalysisAt, cooldownRemainingSeconds>>]_vars

\* a record is cached and its cooldown is running, with the interval set:
\* the state that a new mount finds behind it
C18_Witness ==
  /\ portfolioAnalysis # Null
  /\ nextAvailableAt # NoTime
  /\ cooldownRemainingSeconds > 0
  /\ timer # NoTimer
  /\ analysisTask.phase = "idle"
  /\ \A t \in Tasks : tasks[t].phase = "idle"

-----------------------------------------------------------------------------
(* Claims about changes of holdings next to a cached analysis (SpecMutation) *)

ChangesHoldings(t) == tasks[t].origin \in {"edit", "delete", "import"}

\* a step of an edit, a delete or an import whose request has succeeded: the
\* reload and, at its end, the rest of the handler
StepOfChange(t) ==
  /\ ChangesHoldings(t)
  /\ tasks[t].phase \in {"getHoldings", "quotes"}
  /\ tasks'[t] # tasks[t]

\* the step that ends the handler
EndOfChange(t) == StepOfChange(t) /\ tasks'[t].phase = "idle"

AnalysisFrame ==
  /\ portfolioAnalysis' = portfolioAnalysis
  /\ nextAvailableAt' = nextAvailableAt
  /\ lastAnalysisAt' = lastAnalysisAt
  /\ cooldownRemainingSeconds' = cooldownRemainingSeconds

\* C4 as stated: a successful edit, delete or import next to a cached record
\* marks it stale, leaves record, next_available_at, last_analysis_at and
\* cooldown as they were, and leaves Run Analysis as enabled as before.
C4_StaleAndSameEnabledness ==
  [][\A t \in Tasks :
       (StepOfChange(t) /\ portfolioAnalysis # Null) =>
         /\ AnalysisFrame
         /\ EndOfChange(t) => analysisStale'
         /\ RunDisabled' = RunDisabled]_vars

\* C4: a successful edit, delete or import next to a cached record marks it
\* stale and leaves record, next_available_at, last_analysis_at and cooldown
\* as they were; Run Analysis is as enabled as before unless the reload
\* changes whether the holding list is empty.
C4_StaleAndSameEnablednessButEmptyList ==
  [][\A t \in Tasks :
       (StepOfChange(t) /\ portfolioAnalysis # Null) =>
         /\ AnalysisFrame
         /\ EndOfChange(t) => analysisStale'
         /\ (Len(holdings') = 0) = (Len(holdings) = 0) => RunDisabled' = RunDisabled]_vars

\* a change of holdings has ended next to a record whose cooldown still runs
C4_Witness ==
  /\ portfolioAnalysis # Null
  /\ analysisStale
  /\ cooldownRemainingSeconds = 90
  /\ lastAnalysisAt = 500
  /\ Len(holdings) > 0
  /\ \A t \in Tasks : tasks[t].phase = "idle"

-----------------------------------------------------------------------------
(* Claims about the analysis run and its cooldown (SpecCooldown) *)

\* a step that issues the analysis request
IssuesAnalysisRequest == analysisTask.phase # "request" /\ analysisTask'.phase = "request"

\* C2: while cooldown_remaining_seconds > 0 a runAnalysis is rejected locally:
\* no request to the analysis collaborator is issued or outstanding in such a
\* state, and the click leaves the cached record, next_available_at,
\* last_analysis_at and the remaining cooldown as they were.
C2_RejectedWhileCoolingDown ==
  /\ [](cooldownRemainingSeconds > 0 => analysisTask.phase # "request")
  /\ [][cooldownRemainingSeconds > 0 => ~IssuesAnalysisRequest]_vars
  /\ [][(cooldownRemainingSeconds > 0 /\ ClickRunAnalysis) =>
          UNCHANGED <<portfolioAnalysis, nextAvailableAt, lastAnalysisAt,
                      cooldownRemainingSeconds, analysisLoading, analysisStale>>]_vars

\* a record is cached and only the cooldown keeps Run Analysis disabled
C2_Witness ==
  /\ cooldownRemainingSeconds > 0
  /\ portfolioAnalysis # Null
  /\ Len(holdings) > 0
  /\ ~analysisLoading
  /\ RunDisabled

\* C3 (as claimed): after a successful runAnalysis the cached record is the
\* reply, the stale flag is false, and cooldown_remaining_seconds,
\* next_available_at and last_analysis_at hold exactly the values of the reply.
C3_MetaVerbatim ==
  [][\A response \in AnalysisResponses :
       AnalysisResolve(response) =>
         /\ portfolioAnalysis' = response
         /\ analysisStale' = FALSE
         /\ cooldownRemainingSeconds' = response.analysis_meta.cooldown_remaining_seconds
         /\ nextAvailableAt' = response.analysis_meta.next_available_at
         /\ lastAnalysisAt' = response.analysis_meta.last_analysis_at]_vars

\* C3 (amended): the record, the stale flag, next_available_at and
\* last_analysis_at are as claimed; cooldown_remaining_seconds is the reply's
\* value when the reply's next_available_at is absent or equal to the one held
\* before, and otherwise max(0, floor((next_available_at - now) / 1000)),
\* computed at once from the reply's next_available_at.
C3_MetaVerbatimButCountdown ==
  [][\A response \in AnalysisResponses :
       AnalysisResolve(response) =>
         LET meta == response.analysis_meta
         IN /\ portfolioAnalysis' = response
            /\ analysisStale' = FALSE
            /\ nextAvailableAt' = meta.next_available_at
            /\ lastAnalysisAt' = meta.last_analysis_at
            /\ cooldownRemainingSeconds' =
                 IF meta.next_available_at = NoTime \/ meta.next_available_at = nextAvailableAt
                   THEN meta.cooldown_remaining_seconds
                   ELSE IF meta.next_available_at <= now THEN 0
                   ELSE (meta.next_available_at - now) \div 1000]_vars

\* a fresh record whose cooldown was recomputed and differs from the reply's
C3_Witness ==
  /\ portfolioAnalysis # Null
  /\ ~analysisStale
  /\ analysisTask.phase = "idle"
  /\ nextAvailableAt = 90000
  /\ portfolioAnalysis.analysis_meta.next_available_at = 90000
  /\ portfolioAnalysis.analysis_meta.cooldown_remaining_seconds = 90
  /\ now = 30000
  /\ cooldownRemainingSeconds = 60
  /\ timer.fired = 0

NextPassed == nextAvailableAt # NoTime /\ now >= nextAvailableAt
\* the clock can still reach the next callback of the interval
RoomForTick == now + TickIntervalMs + ClockStepMs <= MaxNowMs

\* C5: once next_available_at has passed, cooldown_remaining_seconds becomes 0,
\* at the latest at the next callback of the interval; with the cooldown at 0
\* a click on Run Analysis, holdings shown and no run under way, issues a
\* request to the analysis collaborator.
C5_CooldownRunsOut ==
  /\ (NextPassed /\ RoomForTick) ~> (cooldownRemainingSeconds = 0)
  /\ [][(/\ ClickRunAnalysis
          /\ cooldownRemainingSeconds = 0
          /\ Len(holdings) > 0
          /\ ~analysisLoading) => IssuesAnalysisRequest]_vars

\* next_available_at has passed, a callback of the interval has set the cooldown
\* to 0, and a new request has been issued
C5_Witness ==
  /\ NextPassed
  /\ timer.fired > 0
  /\ cooldownRemainingSeconds = 0
  /\ portfolioAnalysis # Null
  /\ portfolioAnalysis.analysis_meta.cooldown_remaining_seconds > 0
  /\ analysisTask.phase = "request"

\* C6: cooldown_remaining_seconds is never negative.
C6_CooldownNeverNegative == cooldownRemainingSeconds >= 0

\* a callback of the interval has run after next_available_at passed
C6_Witness ==
  /\ nextAvailableAt # NoTime
  /\ now - nextAvailableAt >= MsPerSecond
  /\ timer.fired > 0
  /\ timer.due > now
  /\ cooldownRemainingSeconds = 0

-----------------------------------------------------------------------------
(* Claims about the totals next to the list (SpecMutation) *)

\* a loadPrices is waiting for its quotes
CycleInFlight == \E t \in Tasks : tasks[t].phase = "quotes"

\* C36: whenever no valuation cycle is in flight, the three totals shown are
\* the sums of current_value, gain_loss and cost basis over exactly the
\* holdings shown, whatever reloads came before: after an edit, a delete or
\* an import, after a reload that failed, and after cycles that overlapped.
C36_TotalsAgreeWithTheList ==
  ~CycleInFlight =>
    LET n == Len(holdings)
    IN /\ totalValue = PlainSum([i \in 1..n |-> holdings[i].current_value], n)
       /\ totalGainLoss = PlainSum([i \in 1..n |-> holdings[i].gain_loss], n)
       /\ totalInvested = PlainSum([i \in 1..n |-> CostBasisOf(holdings[i])], n)

\* the reload of an edit or an import has ended: one priced holding is shown
\* with its totals, the record is stale and the update of another edit is
\* in flight
C36_Witness ==
  /\ ~CycleInFlight
  /\ analysisStale
  /\ Len(holdings) = 1
  /\ totalValue = 8
  /\ totalGainLoss = 2
  /\ totalInvested = 6
  /\ \E t \in Tasks : tasks[t].phase = "update"

-----------------------------------------------------------------------------
(* Claims about runs of the analysis one at a time (SpecCooldown) *)

\* a run of loadAnalysis has not ended: its request or its transcript
\* requests are outstanding
RunInFlight == analysisTask.phase # "idle"

\* C37: while a run of the analysis, its transcript requests included, has
\* not ended, Run Analysis is disabled and no step issues another analysis
\* request; the cached record is written only by the reply to the one
\* request in flight.
C37_OneAnalysisRunAtATime ==
  /\ [](RunInFlight => analysisLoading /\ RunDisabled)
  /\ [][(analysisTask'.phase = "request" /\ analysisTask' # analysisTask) =>
          ~RunInFlight]_vars
  /\ [][RunInFlight => ~(ClickRunAnalysis /\ analysisTask' # analysisTask)]_vars
  /\ [][portfolioAnalysis' # portfolioAnalysis =>
          analysisTask.phase = "request" /\ analysisTask'.phase # "request"]_vars

\* the transcript requests of a run are outstanding; holdings are shown and
\* no cooldown is left, so that only the run in progress disables the button
C37_Witness ==
  /\ analysisTask.phase = "transcripts"
  /\ analysisLoading
  /\ Len(holdings) > 0
  /\ cooldownRemainingSeconds = 0
  /\ portfolioAnalysis # Null

-----------------------------------------------------------------------------
(* Claims about a change of holdings that fails (SpecMutation) *)

\* what is shown of the holdings and of the analysis
ShownFrame ==
  /\ holdings' = holdings
  /\ totalValue' = totalValue
  /\ totalGainLoss' = totalGainLoss
  /\ totalInvested' = totalInvested
  /\ portfolioAnalysis' = portfolioAnalysis
  /\ analysisStale' = analysisStale

\* a loadHoldings is started in this step
ReloadStarts ==
  \E t \in Tasks : tasks[t].phase # "getHoldings" /\ tasks'[t].phase = "getHoldings"

\* the edit inputs do not both hold a number
EditLacksNumber == ~IsNumberText(editShares) \/ ~IsNumberText(editAvgPrice)

\* C38: when the update, delete or bulk upsert request of a handler fails,
\* the holding list, the totals, the cached record and the stale flag stay as
\* they were and no reload of the holdings is started: the handler ends. A
\* Save with shares or price that is no number does the same and issues no
\* update request.
C38_FailedChangeLeavesAllAsItWas ==
  /\ [][\A t \in Tasks :
          MutationReject(t) =>
            /\ ShownFrame
            /\ ~ReloadStarts
            /\ tasks'[t].phase = "idle"]_vars
  /\ [][\A h \in ShownHoldings :
          (HandleSaveEdit(h) /\ EditLacksNumber) =>
            /\ ShownFrame
            /\ tasks' = tasks]_vars
  /\ [](\A t \in Tasks :
          tasks[t].phase = "update" =>
            tasks[t].payload.shares # NaN /\ tasks[t].payload.avg_price # NaN)

\* the update request of an edit to 7 shares is outstanding next to a fresh
\* record; the list still shows 2 shares
C38_Witness ==
  /\ portfolioAnalysis # Null
  /\ ~analysisStale
  /\ Len(holdings) = 1
  /\ holdings[1].shares = 2
  /\ \E t \in Tasks : tasks[t].phase = "update" /\ tasks[t].payload.shares = 7
  /\ \E t \in Tasks : tasks[t].phase = "idle"

-----------------------------------------------------------------------------
(* Claims about the rows of an import that does not commit (SpecImport) *)

AllRowsBlank == \A i \in 1..Len(importRows) : RowBlank(importRows[i])

\* the import handler of task t ends in this step without a commit: a ticker
\* reported invalid, or a validation or bulk upsert request that failed
ImportAborts(t) ==
  /\ ImportRuns(t)
  /\ tasks[t].phase \in {"validate", "bulk"}
  /\ tasks'[t].phase = "idle"

\* the reload after the bulk upsert of task t ends in this step
ImportCommitEnds(t) ==
  /\ ImportRuns(t)
  /\ tasks[t].phase \in {"getHoldings", "quotes"}
  /\ tasks'[t].phase = "idle"

\* C39: a click on Import with every row blank issues no ticker validation
\* and no bulk upsert, shows no error and leaves holdings, rows and stale
\* flag as they were. A click that finds row errors, and an import ended by
\* an invalid ticker or by a failed request, keep the rows and leave the
\* importing flag false. No step of the handler changes the rows except the
\* end of the reload after the bulk upsert, which empties the table.
C39_RowsKeptUnlessCommitted ==
  /\ [][(HandleImportHoldings /\ AllRowsBlank) =>
          /\ tasks' = tasks
          /\ importErrors' = <<>>
          /\ ~importLoading'
          /\ holdings' = holdings
          /\ importRows' = importRows
          /\ analysisStale' = analysisStale]_vars
  /\ [][(HandleImportHoldings /\ RowErrors # <<>>) =>
          /\ tasks' = tasks
          /\ importRows' = importRows
          /\ ~importLoading']_vars
  /\ [][HandleImportHoldings => importRows' = importRows]_vars
  /\ [][\A t \in Tasks :
          /\ ImportAborts(t) => (importRows' = importRows /\ ~importLoading')
          /\ (ImportRuns(t) /\ tasks'[t] # tasks[t] /\ importRows' # importRows) =>
               (ImportCommitEnds(t) /\ importRows' = <<BlankRow>>)]_vars

\* an import was ended by the ticker BBB being reported invalid: the row
\* typed is still in the table, the importing flag is false and nothing is
\* under way
C39_Witness ==
  /\ importRows = <<[ticker |-> "bbb", shares |-> "2", avg_price |-> "3"]>>
  /\ importErrors = <<[kind |-> "ticker", ticker |-> "BBB"]>>
  /\ ~importLoading
  /\ ~analysisStale
  /\ Len(holdings) = 1
  /\ \A t \in Tasks : tasks[t].phase = "idle"

-----------------------------------------------------------------------------
(* Claims about what the coverage amounts to (SpecValued) *)

\* every value of `list` is 0 or more
NoneNegative(list) == \A i \in 1..Len(list) : list[i].current_value >= 0

\* C40: when the holdings of a reply that are no funds have values of 0 or
\* more and a total above 0, transcripts are requested for at least one of
\* them, the values of the requested holdings sum to 70% of that total or
\* more, and without the last requested holding they sum to less than 70%.
C40_CoverageJustReachesTheMark ==
  [][(portfolioAnalysis' # Null /\ AnalysisResolve(portfolioAnalysis')) =>
       LET others == SelectSeq(portfolioAnalysis'.holdings, NotFund)
           total == SumSeq(ValuesOf(others))
           top == RequestedNow
       IN (total > 0 /\ NoneNegative(others)) =>
            /\ top # <<>>
            /\ \A k \in 1..Len(top) : \E i \in 1..Len(others) : others[i] = top[k]
            /\ SumSeq(ValuesOf(top)) * 100 >= 70 * total
            /\ SumSeq(ValuesOf(SubSeq(top, 1, Len(top) - 1))) * 100 < 70 * total]_vars

\* the reply carries 400, a holding without value and 300: the two with a
\* value are requested, they hold the whole total, and the one without is
\* left out
C40_Witness ==
  /\ analysisTask.phase = "transcripts"
  /\ portfolioAnalysis # Null
  /\ ValuesOf(portfolioAnalysis.holdings) = <<400, 0, 300>>
  /\ \A i \in 1..3 : portfolioAnalysis.holdings[i].asset_type = NoType
  /\ ValuesOf(analysisTask.top) = <<400, 300>>

-----------------------------------------------------------------------------
(* Claims about the end of the cooldown (SpecCooldownFair) *)

\* C35: whenever a record is shown with a cooldown above 0, the cooldown
\* eventually reaches 0, also when the record carries no next_available_at.
C35_CooldownEndsAfterRun ==
  (portfolioAnalysis # Null /\ cooldownRemainingSeconds > 0 /\ RoomForTick)
    ~> (cooldownRemainingSeconds = 0)

\* the run has ended with a cooldown of 90 s and no next_available_at: no
\* interval is set that would count it down
C35_Witness ==
  /\ portfolioAnalysis # Null
  /\ portfolioAnalysis.analysis_meta.cooldown_remaining_seconds = 90
  /\ portfolioAnalysis.analysis_meta.next_available_at = NoTime
  /\ analysisTask.phase = "idle"
  /\ cooldownRemainingSeconds = 90
  /\ ~timer.active
  /\ intervals = {}

====
